---- MODULE Spec2Model ----
(***************************************************************************)
(* Model of the fluxor-blob store (src/src/blob_storage.cpp and            *)
(* src/src/blob_storage_io.cpp).                                           *)
(*                                                                         *)
(* Strings are sequences of character codes (ASCII), byte payloads are     *)
(* sequences of byte values.  The file system is a map from a full path    *)
(* string to the content of the regular file of that name.                 *)
(***************************************************************************)
EXTENDS Integers, Sequences, FiniteSets, TLC

VARIABLES
    files,      \* path -> content: the regular files that have a name
    orphans,    \* id -> content: files still open whose name is gone
    pid,        \* getpid() of the running process
    thr,        \* per thread: the call in progress, its locals, its fd
    op,         \* the last call that finished, with its outcome
    hist,       \* <<bucket, key, version>> of the puts that returned
    pure,       \* TRUE while hist holds every put and nothing but puts ran
    indexer,    \* FastBlobIndexer: hashIndex_ and sortedIndex_
    cache_,     \* LRUCache: maxBytes_, currentBytes_, order_ and map_
    program,    \* which static indexer runs, and hardware_concurrency() there
    input,      \* data: the bytes of the static indexer's mapped input
    main,       \* main of the static indexer: where it stands, and its locals
    blobs,      \* std::vector<ParsedBlob>
    arena,      \* Arena: capacity_, offset_ and the bytes written to data_
    idx,        \* the cursor the workers fetch_add their chunks from
    workers,    \* per worker thread: its position, its chunk, what it claimed
    hm,         \* FastHashMap: capacity_, mask_ and entries_
    queries,    \* std::vector<Query>
    results,    \* std::vector<QResult> of the parallel query strategy
    out,        \* the writer: its buffers, and the bytes that reached fd 1
    ring        \* io_uring: the write requests submitted and not yet executed

staticVars == <<program, input, main, blobs, arena, idx, workers, hm, queries, results, out, ring>>

storeVars == <<files, orphans, pid, thr, op, hist, pure, indexer, cache_>>

vars == <<files, orphans, pid, thr, op, hist, pure, indexer, cache_,
          program, input, main, blobs, arena, idx, workers, hm, queries, results, out, ring>>

(* No static indexer runs while the blob store is the program under study. *)
StaticIdle ==
    /\ program = <<>>
    /\ input = <<>>
    /\ main = "idle"
    /\ blobs = <<>>
    /\ arena = <<>>
    /\ idx = 0
    /\ workers = <<>>
    /\ hm = <<>>
    /\ queries = <<>>
    /\ results = <<>>
    /\ out = <<>>
    /\ ring = <<>>

----------------------------------------------------------------------------
(* Model bounds and input domains *)

MaxFiles == 2      \* named files in the store in the general model
MaxKills == 1      \* kills of the process inside a put
MaxChunk == 2      \* greatest number of bytes one write step transfers
MaxCalls == 1      \* calls one thread makes in the threaded model

root_ == <<114>>                       \* "r"
Buckets == {<<65>>, <<66>>}            \* "A", "B"
KeyA == <<97>>                         \* "a"
KeyAB == <<97, 98>>                    \* "ab": hex has hex("a") as prefix
KeyUU == <<97, 95, 95>>                \* "a__": contains "__"
NoVersion == <<>>                      \* the default versionId ""
FirstPid == 7                          \* pid of the first process
NextPid(p) == p + 5                    \* pid of the process after a restart

----------------------------------------------------------------------------
(* std::string helpers *)

IsPrefix(p, s) == Len(p) <= Len(s) /\ SubSeq(s, 1, Len(p)) = p

\* std::string::find(sub): 0-based position of the first occurrence, -1 = npos
StrFind(s, sub) ==
    LET hits == {i \in 0..(Len(s) - Len(sub)) : SubSeq(s, i + 1, i + Len(sub)) = sub}
    IN IF hits = {} THEN -1 ELSE CHOOSE i \in hits : \A j \in hits : i <= j

\* std::string::find_last_of('/'): 0-based position, -1 = npos
FindLastSlash(s) ==
    LET hits == {i \in 1..Len(s) : s[i] = 47}
    IN IF hits = {} THEN -1 ELSE (CHOOSE i \in hits : \A j \in hits : j <= i) - 1

\* operator< of std::string: unsigned byte-wise, a proper prefix is smaller
RECURSIVE StrLess(_, _)
StrLess(a, b) ==
    IF b = <<>> THEN FALSE
    ELSE IF a = <<>> THEN TRUE
    ELSE IF a[1] # b[1] THEN a[1] < b[1]
    ELSE StrLess(Tail(a), Tail(b))

\* std::to_string of a non-negative integer
RECURSIVE to_string(_)
to_string(n) ==
    IF n < 10 THEN <<48 + n>> ELSE to_string(n \div 10) \o <<48 + (n % 10)>>

----------------------------------------------------------------------------
(* Path codec *)

HexDigits == <<48, 49, 50, 51, 52, 53, 54, 55, 56, 57, 97, 98, 99, 100, 101, 102>>

RECURSIVE hexEncode(_)
hexEncode(s) ==
    IF s = <<>> THEN <<>>
    ELSE <<HexDigits[(s[1] \div 16) + 1], HexDigits[(s[1] % 16) + 1]>>
         \o hexEncode(Tail(s))

hexVal(c) ==
    IF c >= 48 /\ c <= 57 THEN c - 48
    ELSE IF c >= 97 /\ c <= 102 THEN 10 + (c - 97)
    ELSE IF c >= 65 /\ c <= 70 THEN 10 + (c - 65)
    ELSE -1

\* [ok |-> FALSE] stands for the std::runtime_error("Invalid hex string")
RECURSIVE hexDecodeFrom(_, _)
hexDecodeFrom(hex, i) ==
    IF i > Len(hex) THEN [ok |-> TRUE, out |-> <<>>]
    ELSE LET hi == hexVal(hex[i])
             lo == hexVal(hex[i + 1])
         IN IF hi < 0 \/ lo < 0 THEN [ok |-> FALSE, out |-> <<>>]
            ELSE LET rest == hexDecodeFrom(hex, i + 2)
                 IN [ok |-> rest.ok,
                     out |-> IF rest.ok THEN <<hi * 16 + lo>> \o rest.out ELSE <<>>]

hexDecode(hex) ==
    IF Len(hex) % 2 # 0 THEN [ok |-> FALSE, out |-> <<>>]
    ELSE hexDecodeFrom(hex, 1)

join(a, b) ==
    IF a = <<>> THEN b
    ELSE IF a[Len(a)] = 47 THEN a \o b
    ELSE a \o <<47>> \o b

dataDir(bucket) == join(join(root_, bucket), <<100, 97, 116, 97>>)

shardOf(hex) == IF Len(hex) >= 2 THEN SubSeq(hex, 1, 2) ELSE <<122, 122>>

\* pathForKey that leaves the version id out of the name
pathForKey_unversioned(bucket, key, versionId) ==
    LET hex == hexEncode(key)
    IN join(join(dataDir(bucket), shardOf(hex)), hex)

pathForKey(bucket, key, versionId) ==
    LET hex == hexEncode(key)
        base == join(join(dataDir(bucket), shardOf(hex)), hex)
    IN IF versionId # <<>> THEN base \o <<95, 95>> \o versionId ELSE base

\* the temp sidecar name of writeFileAtomic
tmpPath(path, p) == path \o <<46, 116, 109, 112, 45>> \o to_string(p)

----------------------------------------------------------------------------
(* File system primitives over a path -> content map *)

fileExists(fs, path) == path \in DOMAIN fs

fileSize(fs, path) == Len(fs[path])

FsWrite(fs, path, content) ==
    [q \in DOMAIN fs \cup {path} |-> IF q = path THEN content ELSE fs[q]]

FsUnlink(fs, path) == [q \in DOMAIN fs \ {path} |-> fs[q]]

\* a directory: a path with a trailing slash or with an entry below it
IsDirPath(fs, path) ==
    \/ path # <<>> /\ path[Len(path)] = 47
    \/ \E f \in DOMAIN fs : IsPrefix(path \o <<47>>, f)

\* rename(2) fails when the source is missing or the target is a directory
RenameOk(fs, from, to) == fileExists(fs, from) /\ ~IsDirPath(fs, to)

FsRename(fs, from, to) ==
    [q \in (DOMAIN fs \ {from}) \cup {to} |-> IF q = to THEN fs[from] ELSE fs[q]]

\* the names readdir yields for a directory ("." and ".." left out)
readdir(fs, dir) ==
    LET prefix == IF dir # <<>> /\ dir[Len(dir)] = 47 THEN dir ELSE dir \o <<47>>
        under == {f \in DOMAIN fs : IsPrefix(prefix, f) /\ Len(f) > Len(prefix)}
        name(f) == LET rest == SubSeq(f, Len(prefix) + 1, Len(f))
                       cut == StrFind(rest, <<47>>)
                   IN IF cut < 0 THEN rest ELSE SubSeq(rest, 1, cut)
    IN {name(f) : f \in under}

RECURSIVE Ascending(_)
Ascending(S) ==
    IF S = {} THEN <<>>
    ELSE LET m == CHOOSE x \in S : \A y \in S : ~StrLess(y, x)
         IN <<m>> \o Ascending(S \ {m})

Reverse(s) == [i \in 1..Len(s) |-> s[Len(s) + 1 - i]]

\* readdir yields the entries in an unspecified order: the model lets it be
\* the ascending or the descending order of the names
Orders(S) == {Ascending(S), Reverse(Ascending(S))}

Range(s) == {s[i] : i \in DOMAIN s}

----------------------------------------------------------------------------
(* BlobStorage: the steps of the handlers as functions of the file map *)

KeepVersions == 3

versionsDir(bucket, key) ==
    join(join(dataDir(bucket), shardOf(hexEncode(key))), <<>>)

\* the loop of listVersions over the entries in the order readdir gave them
RECURSIVE listVersionsOf(_, _)
listVersionsOf(ents, hex) ==
    IF ents = <<>> THEN <<>>
    ELSE LET fname == Head(ents)
             prefix == hex \o <<95, 95>>
             rest == listVersionsOf(Tail(ents), hex)
         IN IF fname = hex THEN <<NoVersion>> \o rest
            ELSE IF StrFind(fname, prefix) = 0
                 THEN <<SubSeq(fname, Len(prefix) + 1, Len(fname))>> \o rest
                 ELSE rest

\* every vector listVersions may return in the given file map
listVersions(fs, bucket, key) ==
    {listVersionsOf(e, hexEncode(key)) :
        e \in Orders(readdir(fs, versionsDir(bucket, key)))}

\* max_element with the comparison turned round: the first least element
RECURSIVE max_element_least(_)
max_element_least(s) ==
    IF Len(s) = 1 THEN s[1]
    ELSE LET m == max_element_least(SubSeq(s, 1, Len(s) - 1))
         IN IF StrLess(s[Len(s)], m) THEN s[Len(s)] ELSE m

\* std::max_element: the first greatest element of a non-empty vector
RECURSIVE max_element(_)
max_element(s) ==
    IF Len(s) = 1 THEN s[1]
    ELSE LET m == max_element(SubSeq(s, 1, Len(s) - 1))
         IN IF StrLess(m, s[Len(s)]) THEN s[Len(s)] ELSE m

getLatestVersionId(versions) ==
    IF versions = <<>> THEN NoVersion ELSE max_element(versions)

\* std::sort(versions.rbegin(), versions.rend()): descending order
RECURSIVE InsertDesc(_, _)
InsertDesc(x, s) ==
    IF s = <<>> THEN <<x>>
    ELSE IF StrLess(Head(s), x) THEN <<x>> \o s
    ELSE <<Head(s)>> \o InsertDesc(x, Tail(s))

\* the sort over begin()/end(): ascending order
RECURSIVE sortDescending_ascending(_)
sortDescending_ascending(s) ==
    IF s = <<>> THEN <<>>
    ELSE Reverse(InsertDesc(Head(s), Reverse(sortDescending_ascending(Tail(s)))))

RECURSIVE sortDescending(_)
sortDescending(s) ==
    IF s = <<>> THEN <<>> ELSE InsertDesc(Head(s), sortDescending(Tail(s)))

\* one round of the retention loop of put: versions[i], 0-based
reapOne(fs, bucket, key, versions, i) ==
    LET oldPath == pathForKey(bucket, key, versions[i + 1])
    IN IF fileExists(fs, oldPath) THEN FsUnlink(fs, oldPath) ELSE fs

RECURSIVE reapFrom(_, _, _, _, _)
reapFrom(fs, bucket, key, versions, i) ==
    IF i >= Len(versions) THEN fs
    ELSE reapFrom(reapOne(fs, bucket, key, versions, i), bucket, key, versions, i + 1)

\* writeFileAtomic run without interruption; ok = FALSE is the throw
writeFileAtomic(fs, path, data, p) ==
    LET tmp == tmpPath(path, p)
        written == FsWrite(fs, tmp, data)
    IN IF RenameOk(written, tmp, path)
       THEN [ok |-> TRUE, fs |-> FsRename(written, tmp, path)]
       ELSE [ok |-> FALSE, fs |-> FsUnlink(written, tmp)]

\* readFile: ok = FALSE is the throw of a failed stat
readFile(fs, path) ==
    IF ~fileExists(fs, path) THEN [ok |-> FALSE, bytes |-> <<>>]
    ELSE IF fileSize(fs, path) = 0 THEN [ok |-> TRUE, bytes |-> <<>>]
    ELSE [ok |-> TRUE, bytes |-> fs[path]]

\* get once listVersions has returned `versions`
getWith(fs, bucket, key, versionId, versions) ==
    LET p == pathForKey(bucket, key,
                 IF versionId = <<>> THEN getLatestVersionId(versions) ELSE versionId)
    IN IF ~fileExists(fs, p) THEN [ok |-> FALSE, bytes |-> <<>>]
       ELSE readFile(fs, p)

\* sizeOf once listVersions has returned `versions`
sizeOfWith(fs, bucket, key, versionId, versions) ==
    LET p == pathForKey(bucket, key,
                 IF versionId = <<>> THEN getLatestVersionId(versions) ELSE versionId)
    IN IF ~fileExists(fs, p) THEN [ok |-> FALSE, num |-> 0]
       ELSE [ok |-> TRUE, num |-> fileSize(fs, p)]

\* the remove-all loop leaving after its first unlink
removeAll_firstOnly(fs, bucket, key, versions, any) ==
    LET there == {j \in 1..Len(versions) :
                     fileExists(fs, pathForKey(bucket, key, versions[j]))}
    IN IF there = {} THEN [fs |-> fs, any |-> any, n |-> 0]
       ELSE LET j == CHOOSE x \in there : \A y \in there : x <= y
            IN [fs |-> FsUnlink(fs, pathForKey(bucket, key, versions[j])),
                any |-> TRUE, n |-> 0]

\* the remove-all loop over the vector listVersions returned
RECURSIVE removeAll(_, _, _, _, _)
removeAll(fs, bucket, key, versions, any) ==
    IF versions = <<>> THEN [fs |-> fs, any |-> any, n |-> 0]
    ELSE LET p == pathForKey(bucket, key, Head(versions))
         IN IF fileExists(fs, p)
            THEN removeAll(FsUnlink(fs, p), bucket, key, Tail(versions), TRUE)
            ELSE removeAll(fs, bucket, key, Tail(versions), any)

\* the inner loop of list over the entries of one shard directory
RECURSIVE listShard(_)
listShard(ents) ==
    IF ents = <<>> THEN <<>>
    ELSE LET dec == hexDecode(Head(ents))
             rest == listShard(Tail(ents))
         IN IF dec.ok /\ StrFind(dec.out, <<95, 95>>) = -1
            THEN <<dec.out>> \o rest
            ELSE rest

\* the outer loop of list over the shard directories, each in some order
RECURSIVE listKeys(_, _, _)
listKeys(fs, base, shards) ==
    IF shards = <<>> THEN {<<>>}
    ELSE LET shardPath == join(base, Head(shards))
         IN {listShard(e) \o tl :
                e \in Orders(readdir(fs, shardPath)),
                tl \in listKeys(fs, base, Tail(shards))}

\* every vector list may return in the given file map
list(fs, bucket) ==
    UNION {listKeys(fs, dataDir(bucket), s) :
              s \in Orders(readdir(fs, dataDir(bucket)))}

----------------------------------------------------------------------------
(* State shared by the specifications *)

Threads == {1, 2}

NoFd == [kind |-> "none", path |-> <<>>, id |-> 0]

IdleThread ==
    [pc |-> "idle", call |-> "none", b |-> <<>>, k |-> <<>>, v |-> <<>>,
     data |-> <<>>, off |-> 0, fd |-> NoFd, versions |-> <<>>, i |-> 0,
     path |-> <<>>, size |-> 0, calls |-> 0]

AllIdle == \A t \in Threads : thr[t].pc = "idle"

NoOp ==
    [name |-> "init", b |-> <<>>, k |-> <<>>, v |-> <<>>, data |-> <<>>,
     ok |-> TRUE, bytes |-> <<>>, num |-> 0, flag |-> FALSE, names |-> <<>>]

Done(name, b, k, v, data, ok) ==
    [NoOp EXCEPT !.name = name, !.b = b, !.k = k, !.v = v, !.data = data, !.ok = ok]

\* FastBlobIndexer after construction: both views empty
NoIndex == [hashIndex_ |-> <<>>, sortedIndex_ |-> <<>>]

\* an LRUCache of budget 0 that is never used
NoCache == [maxBytes_ |-> 0, currentBytes_ |-> 0, order_ |-> <<>>, map_ |-> <<>>]

\* the store right after BlobStorage::init on an empty root
InitStore ==
    /\ files = <<>>
    /\ orphans = <<>>
    /\ pid = FirstPid
    /\ thr = [t \in Threads |-> IdleThread]
    /\ op = NoOp
    /\ hist = {}
    /\ indexer = NoIndex
    /\ cache_ = NoCache
    /\ StaticIdle

Init == InitStore /\ pure = FALSE

\* the same store, with the history of puts recorded
InitTracked == InitStore /\ pure = TRUE

concVars == <<orphans, thr>>

----------------------------------------------------------------------------
(* BlobStorage handlers called by one thread at a time *)

Put(b, k, data, v) ==
    /\ AllIdle
    /\ LET w == writeFileAtomic(files, pathForKey(b, k, v), data, pid)
       IN IF ~w.ok
          THEN /\ files' = w.fs
               /\ op' = Done("put", b, k, v, data, FALSE)
               /\ UNCHANGED <<hist, pure>>
          ELSE /\ \E r \in {[fs |-> reapFrom(w.fs, b, k, sortDescending(versions),
                                                KeepVersions),
                              n |-> Len(versions)] :
                             versions \in listVersions(w.fs, b, k)} :
                     /\ files' = r.fs
                     /\ op' = [Done("put", b, k, v, data, TRUE) EXCEPT !.num = r.n]
               /\ hist' = IF pure THEN hist \cup {<<b, k, v>>} ELSE hist
               /\ pure' = pure
    /\ UNCHANGED <<pid, concVars>>

\* the process is killed inside writeFileAtomic after n bytes reached the
\* temp file and before rename; the store is reopened by a new process
PutKilled(b, k, data, v, n) ==
    /\ AllIdle
    /\ pid < FirstPid + 5 * MaxKills
    /\ n <= Len(data)
    /\ files' = FsWrite(files, tmpPath(pathForKey(b, k, v), pid), SubSeq(data, 1, n))
    /\ pid' = NextPid(pid)
    /\ op' = Done("putKilled", b, k, v, <<>>, FALSE)
    /\ hist' = {}
    /\ pure' = FALSE
    /\ UNCHANGED concVars

Get(b, k, v) ==
    /\ AllIdle
    /\ op' \in {LET r == getWith(files, b, k, v, versions)
                 IN [Done("get", b, k, v, <<>>, r.ok) EXCEPT !.bytes = r.bytes] :
                 versions \in listVersions(files, b, k)}
    /\ UNCHANGED <<files, pid, hist, pure, concVars>>

SizeOf(b, k, v) ==
    /\ AllIdle
    /\ op' \in {LET r == sizeOfWith(files, b, k, v, versions)
                 IN [Done("sizeOf", b, k, v, <<>>, r.ok) EXCEPT !.num = r.num] :
                 versions \in listVersions(files, b, k)}
    /\ UNCHANGED <<files, pid, hist, pure, concVars>>

Exists(b, k) ==
    /\ AllIdle
    /\ op' \in {[Done("exists", b, k, <<>>, <<>>, TRUE)
                    EXCEPT !.flag = (versions # <<>>)] :
                 versions \in listVersions(files, b, k)}
    /\ UNCHANGED <<files, pid, hist, pure, concVars>>

ListVersions(b, k) ==
    /\ AllIdle
    /\ \E versions \in listVersions(files, b, k) :
          op' = [Done("listVersions", b, k, <<>>, <<>>, TRUE) EXCEPT !.names = versions]
    /\ UNCHANGED <<files, pid, hist, pure, concVars>>

List(b) ==
    /\ AllIdle
    /\ \E keys \in list(files, b) :
          op' = [Done("list", b, <<>>, <<>>, <<>>, TRUE) EXCEPT !.names = keys]
    /\ UNCHANGED <<files, pid, hist, pure, concVars>>

\* remove taking the remove-all branch whatever the version id
Remove_everyVersion(b, k, v) ==
    /\ AllIdle
    /\ \E r \in {[removeAll(files, b, k, versions, FALSE) EXCEPT !.n = Len(versions)] :
                   versions \in listVersions(files, b, k)} :
          /\ files' = r.fs
          /\ op' = [Done("remove", b, k, v, <<>>, TRUE) EXCEPT !.flag = r.any, !.num = r.n]
    /\ hist' = {}
    /\ pure' = FALSE
    /\ UNCHANGED <<pid, concVars>>

Remove(b, k, v) ==
    /\ AllIdle
    /\ IF v # <<>>
       THEN LET p == pathForKey(b, k, v)
            IN IF ~fileExists(files, p)
               THEN /\ files' = files
                    /\ op' = [Done("remove", b, k, v, <<>>, TRUE) EXCEPT !.flag = FALSE]
               ELSE /\ files' = FsUnlink(files, p)
                    /\ op' = [Done("remove", b, k, v, <<>>, TRUE) EXCEPT !.flag = TRUE]
       ELSE \E r \in {[removeAll(files, b, k, versions, FALSE)
                            EXCEPT !.n = Len(versions)] :
                          versions \in listVersions(files, b, k)} :
               /\ files' = r.fs
               /\ op' = [Done("remove", b, k, v, <<>>, TRUE)
                            EXCEPT !.flag = r.any, !.num = r.n]
    /\ hist' = {}
    /\ pure' = FALSE
    /\ UNCHANGED <<pid, concVars>>

----------------------------------------------------------------------------
(* Spec: the store API used by one thread on two buckets *)

Payloads == {<<>>, <<1, 2>>}
StoredKeys == {KeyA, KeyUU}
Keys == StoredKeys \cup {<<>>}          \* the empty key: its put throws
Versions == {NoVersion, <<49>>}         \* "", "1"

FilesBounded == Cardinality(DOMAIN files') <= MaxFiles

Next ==
    \/ \E b \in Buckets, k \in Keys, d \in Payloads, v \in Versions :
          Put(b, k, d, v) /\ FilesBounded
          /\ UNCHANGED <<indexer, cache_, staticVars>>
    \/ \E b \in Buckets, k \in StoredKeys, v \in Versions : Get(b, k, v)
          /\ UNCHANGED <<indexer, cache_, staticVars>>
    \/ \E b \in Buckets, k \in StoredKeys, v \in Versions : SizeOf(b, k, v)
          /\ UNCHANGED <<indexer, cache_, staticVars>>
    \/ \E b \in Buckets, k \in StoredKeys : Exists(b, k)
          /\ UNCHANGED <<indexer, cache_, staticVars>>
    \/ \E b \in Buckets : List(b)
          /\ UNCHANGED <<indexer, cache_, staticVars>>
    \/ \E b \in Buckets, k \in StoredKeys, v \in Versions : Remove(b, k, v)
          /\ UNCHANGED <<indexer, cache_, staticVars>>

Spec == Init /\ [][Next]_vars

----------------------------------------------------------------------------
(* SpecRet: many versions of one key, for the retention policy *)

BucketA == <<65>>
RetVersions == {NoVersion, <<49>>, <<49, 48>>, <<50>>, <<57>>}  \* "" 1 10 2 9
RetPayloads == {<<3>>, <<1, 2>>}

NextRet ==
    \/ \E d \in RetPayloads, v \in RetVersions : Put(BucketA, KeyA, d, v)
          /\ UNCHANGED <<indexer, cache_, staticVars>>
    \/ \E v \in RetVersions : Get(BucketA, KeyA, v)
          /\ UNCHANGED <<indexer, cache_, staticVars>>
    \/ \E v \in RetVersions : SizeOf(BucketA, KeyA, v)
          /\ UNCHANGED <<indexer, cache_, staticVars>>
    \/ ListVersions(BucketA, KeyA)
          /\ UNCHANGED <<indexer, cache_, staticVars>>
    \/ \E v \in RetVersions : Remove(BucketA, KeyA, v)
          /\ UNCHANGED <<indexer, cache_, staticVars>>

SpecRet == InitTracked /\ [][NextRet]_vars

----------------------------------------------------------------------------
(* SpecCrash: one key, puts killed before their rename, restarts *)

CrashVersions == {NoVersion, <<49>>, <<50>>}     \* "", "1", "2"

NextCrash ==
    \/ \E d \in Payloads, v \in CrashVersions : Put(BucketA, KeyA, d, v)
          /\ UNCHANGED <<indexer, cache_, staticVars>>
    \/ \E d \in Payloads, v \in CrashVersions, n \in 0..MaxChunk :
          PutKilled(BucketA, KeyA, d, v, n)
          /\ UNCHANGED <<indexer, cache_, staticVars>>
    \/ \E v \in CrashVersions : Get(BucketA, KeyA, v)
          /\ UNCHANGED <<indexer, cache_, staticVars>>
    \/ Exists(BucketA, KeyA)
          /\ UNCHANGED <<indexer, cache_, staticVars>>
    \/ ListVersions(BucketA, KeyA)
          /\ UNCHANGED <<indexer, cache_, staticVars>>
    \/ \E v \in CrashVersions : Remove(BucketA, KeyA, v)
          /\ UNCHANGED <<indexer, cache_, staticVars>>

SpecCrash == Init /\ [][NextCrash]_vars

----------------------------------------------------------------------------
(* SpecList: unversioned puts of several keys into empty buckets *)

ListKeys == {KeyA, KeyAB, KeyUU}

NextList ==
    \/ \E b \in Buckets, k \in ListKeys, d \in Payloads : Put(b, k, d, NoVersion)
          /\ UNCHANGED <<indexer, cache_, staticVars>>
    \/ \E b \in Buckets : List(b)
          /\ UNCHANGED <<indexer, cache_, staticVars>>
    \/ \E b \in Buckets, k \in ListKeys : Exists(b, k)
          /\ UNCHANGED <<indexer, cache_, staticVars>>

SpecList == InitTracked /\ [][NextList]_vars

----------------------------------------------------------------------------
(* SpecConc: two threads of one process, each handler one system call at a   *)
(* time.  A descriptor follows its file: when the name of an open file is    *)
(* unlinked or renamed over, the file lives on in `orphans` until closed.    *)

ConcVersions == {NoVersion, <<49>>}      \* "", "1"
ConcPayloads == {<<>>, <<3>>, <<1, 2>>}

\* pwrite semantics of a descriptor at its own offset: a gap reads as zeros
WriteAt(content, off, bytes) ==
    LET len == IF Len(content) > off + Len(bytes) THEN Len(content)
               ELSE off + Len(bytes)
    IN [j \in 1..len |->
           IF j > off /\ j <= off + Len(bytes) THEN bytes[j - off]
           ELSE IF j <= Len(content) THEN content[j] ELSE 0]

FdContent(fd) == IF fd.kind = "name" THEN files[fd.path] ELSE orphans[fd.id]

FreshOrphan(orph) == CHOOSE n \in 1..(Cardinality(DOMAIN orph) + 1) : n \notin DOMAIN orph

\* the open descriptors and the orphans after `path` lost its file
Detach(th, orph, fs, path) ==
    IF fileExists(fs, path)
       /\ \E t \in Threads : th[t].fd.kind = "name" /\ th[t].fd.path = path
    THEN LET id == FreshOrphan(orph)
         IN [thr |-> [t \in Threads |->
                        IF th[t].fd.kind = "name" /\ th[t].fd.path = path
                        THEN [th[t] EXCEPT !.fd = [kind |-> "orphan", path |-> <<>>, id |-> id]]
                        ELSE th[t]],
             orphans |-> [n \in DOMAIN orph \cup {id} |->
                             IF n = id THEN fs[path] ELSE orph[n]]]
    ELSE [thr |-> th, orphans |-> orph]

\* close(2) by thread t: an orphan nobody else holds is freed
CloseFd(th, orph, t) ==
    LET fd == th[t].fd
        held == \E u \in Threads \ {t} : th[u].fd = fd
    IN [thr |-> [th EXCEPT ![t].fd = NoFd],
        orphans |-> IF fd.kind = "orphan" /\ ~held
                    THEN [n \in DOMAIN orph \ {fd.id} |-> orph[n]]
                    ELSE orph]

\* the open descriptors after rename(from, to) succeeded
Follow(th, from, to) ==
    [t \in Threads |->
        IF th[t].fd.kind = "name" /\ th[t].fd.path = from
        THEN [th[t] EXCEPT !.fd.path = to] ELSE th[t]]

Returned(t) == [thr[t] EXCEPT !.pc = "idle", !.fd = NoFd, !.off = 0, !.i = 0,
                              !.versions = <<>>, !.size = 0]

\* thread t on entry to a handler: its arguments and the path it computes
Entered(t, call, b, k, v, data, pc) ==
    [IdleThread EXCEPT !.pc = pc, !.call = call, !.b = b, !.k = k, !.v = v,
                       !.data = data, !.path = pathForKey(b, k, v),
                       !.calls = thr[t].calls + 1]

CallPut(t, b, k, data, v) ==
    /\ thr[t].pc = "idle"
    /\ thr[t].calls < MaxCalls
    /\ thr' = [thr EXCEPT ![t] = Entered(t, "put", b, k, v, data, "open")]
    /\ UNCHANGED <<files, orphans, pid, op, hist, pure>>

\* writeFileAtomic: std::ofstream ofs(tmp, binary | trunc)
PutOpen(t) ==
    /\ thr[t].pc = "open"
    /\ LET tmp == tmpPath(thr[t].path, pid)
       IN /\ files' = FsWrite(files, tmp, <<>>)
          /\ thr' = [thr EXCEPT ![t].pc = "write", ![t].off = 0,
                                ![t].fd = [kind |-> "name", path |-> tmp, id |-> 0]]
    /\ UNCHANGED <<orphans, pid, op, hist, pure>>

\* writeFileAtomic: one write(2) of the stream's buffer, n bytes long
PutWrite(t, n) ==
    /\ thr[t].pc = "write"
    /\ thr[t].off + n <= Len(thr[t].data)
    /\ LET fd == thr[t].fd
           bytes == SubSeq(thr[t].data, thr[t].off + 1, thr[t].off + n)
           content == WriteAt(FdContent(fd), thr[t].off, bytes)
       IN /\ IF fd.kind = "name"
             THEN files' = FsWrite(files, fd.path, content) /\ orphans' = orphans
             ELSE orphans' = [orphans EXCEPT ![fd.id] = content] /\ files' = files
          /\ thr' = [thr EXCEPT ![t].off = thr[t].off + n]
    /\ UNCHANGED <<pid, op, hist, pure>>

\* writeFileAtomic: ofs.close(), then rename(tmp, path)
PutRename(t) ==
    /\ thr[t].pc = "write"
    /\ thr[t].off = Len(thr[t].data)
    /\ LET tmp == tmpPath(thr[t].path, pid)
           closed == CloseFd(thr, orphans, t)
       IN IF RenameOk(files, tmp, thr[t].path)
          THEN LET d == Detach(closed.thr, closed.orphans, files, thr[t].path)
               IN /\ files' = FsRename(files, tmp, thr[t].path)
                  /\ orphans' = d.orphans
                  /\ thr' = [Follow(d.thr, tmp, thr[t].path) EXCEPT ![t].pc = "list"]
          ELSE /\ files' = files
               /\ orphans' = closed.orphans
               /\ thr' = [closed.thr EXCEPT ![t].pc = "unlinkTmp"]
    /\ UNCHANGED <<pid, op, hist, pure>>

\* writeFileAtomic: unlink(tmp) after the failed rename, then the throw
PutUnlinkTmp(t) ==
    /\ thr[t].pc = "unlinkTmp"
    /\ LET tmp == tmpPath(thr[t].path, pid)
           d == Detach(thr, orphans, files, tmp)
       IN /\ files' = IF fileExists(files, tmp) THEN FsUnlink(files, tmp) ELSE files
          /\ orphans' = d.orphans
          /\ thr' = [d.thr EXCEPT ![t] = Returned(t)]
    /\ op' = Done("put", thr[t].b, thr[t].k, thr[t].v, thr[t].data, FALSE)
    /\ UNCHANGED <<pid, hist, pure>>

\* put: listVersions and the sort
PutList(t) ==
    /\ thr[t].pc = "list"
    /\ \E versions \in listVersions(files, thr[t].b, thr[t].k) :
          thr' = [thr EXCEPT ![t].pc = "reap", ![t].i = KeepVersions,
                             ![t].versions = sortDescending(versions)]
    /\ UNCHANGED <<files, orphans, pid, op, hist, pure>>

\* put: one round of the retention loop, or the return after the last one
PutReap(t) ==
    /\ thr[t].pc = "reap"
    /\ IF thr[t].i >= Len(thr[t].versions)
       THEN /\ thr' = [thr EXCEPT ![t] = Returned(t)]
            /\ op' = [Done("put", thr[t].b, thr[t].k, thr[t].v, thr[t].data, TRUE)
                         EXCEPT !.num = Len(thr[t].versions)]
            /\ UNCHANGED <<files, orphans>>
       ELSE LET oldPath == pathForKey(thr[t].b, thr[t].k, thr[t].versions[thr[t].i + 1])
                d == Detach(thr, orphans, files, oldPath)
            IN /\ files' = reapOne(files, thr[t].b, thr[t].k, thr[t].versions, thr[t].i)
               /\ orphans' = d.orphans
               /\ thr' = [d.thr EXCEPT ![t].i = thr[t].i + 1]
               /\ op' = op
    /\ UNCHANGED <<pid, hist, pure>>

CallGet(t, b, k, v) ==
    /\ thr[t].pc = "idle"
    /\ thr[t].calls < MaxCalls
    /\ thr' = [thr EXCEPT ![t] = Entered(t, "get", b, k, v, <<>>,
                                     IF v = NoVersion THEN "resolve" ELSE "check")]
    /\ UNCHANGED <<files, orphans, pid, op, hist, pure>>

CallSizeOf(t, b, k, v) ==
    /\ thr[t].pc = "idle"
    /\ thr[t].calls < MaxCalls
    /\ thr' = [thr EXCEPT ![t] = Entered(t, "sizeOf", b, k, v, <<>>,
                                     IF v = NoVersion THEN "resolve" ELSE "stat")]
    /\ UNCHANGED <<files, orphans, pid, op, hist, pure>>

\* get, sizeOf: getLatestVersionId and pathForKey
Resolve(t) ==
    /\ thr[t].pc = "resolve"
    /\ \E versions \in listVersions(files, thr[t].b, thr[t].k) :
          thr' = [thr EXCEPT
                    ![t].pc = IF thr[t].call = "get" THEN "check" ELSE "stat",
                    ![t].path = pathForKey(thr[t].b, thr[t].k,
                                           getLatestVersionId(versions))]
    /\ UNCHANGED <<files, orphans, pid, op, hist, pure>>

Throw(t) ==
    /\ thr' = [thr EXCEPT ![t] = Returned(t)]
    /\ op' = Done(thr[t].call, thr[t].b, thr[t].k, thr[t].v, <<>>, FALSE)

\* get: fileExists(p)
GetCheck(t) ==
    /\ thr[t].pc = "check"
    /\ IF fileExists(files, thr[t].path)
       THEN thr' = [thr EXCEPT ![t].pc = "stat"] /\ op' = op
       ELSE Throw(t)
    /\ UNCHANGED <<files, orphans, pid, hist, pure>>

\* readFile and fileSize: stat(path)
Stat(t) ==
    /\ thr[t].pc = "stat"
    /\ IF ~fileExists(files, thr[t].path) THEN Throw(t)
       ELSE IF thr[t].call = "sizeOf"
       THEN /\ thr' = [thr EXCEPT ![t] = Returned(t)]
            /\ op' = [Done("sizeOf", thr[t].b, thr[t].k, thr[t].v, <<>>, TRUE)
                         EXCEPT !.num = fileSize(files, thr[t].path)]
       ELSE IF fileSize(files, thr[t].path) = 0
       THEN /\ thr' = [thr EXCEPT ![t] = Returned(t)]
            /\ op' = Done("get", thr[t].b, thr[t].k, thr[t].v, <<>>, TRUE)
       ELSE /\ thr' = [thr EXCEPT ![t].pc = "openRead",
                                  ![t].size = fileSize(files, thr[t].path)]
            /\ op' = op
    /\ UNCHANGED <<files, orphans, pid, hist, pure>>

\* readFile: open(path, O_RDONLY)
GetOpen(t) ==
    /\ thr[t].pc = "openRead"
    /\ IF fileExists(files, thr[t].path)
       THEN /\ thr' = [thr EXCEPT ![t].pc = "copy",
                          ![t].fd = [kind |-> "name", path |-> thr[t].path, id |-> 0]]
            /\ op' = op
       ELSE Throw(t)
    /\ UNCHANGED <<files, orphans, pid, hist, pure>>

\* readFile: mmap of st_size bytes and memcpy out of the mapping; past the
\* end of the file the mapping reads as zeros up to the page end
GetCopy(t) ==
    /\ thr[t].pc = "copy"
    /\ Len(FdContent(thr[t].fd)) >= thr[t].size \/ FdContent(thr[t].fd) # <<>>
    /\ LET content == FdContent(thr[t].fd)
           closed == CloseFd(thr, orphans, t)
       IN /\ op' = [Done("get", thr[t].b, thr[t].k, thr[t].v, <<>>, TRUE) EXCEPT
                      !.bytes = [j \in 1..thr[t].size |->
                                    IF j <= Len(content) THEN content[j] ELSE 0]]
          /\ orphans' = closed.orphans
          /\ thr' = [closed.thr EXCEPT ![t] = [Returned(t) EXCEPT !.fd = NoFd]]
    /\ UNCHANGED <<files, pid, hist, pure>>

\* readFile: the memcpy reaches a page past the end of the file: SIGBUS ends
\* the process with all its threads
GetSigbus(t) ==
    /\ thr[t].pc = "copy"
    /\ FdContent(thr[t].fd) = <<>>
    /\ thr' = [u \in Threads |-> [IdleThread EXCEPT !.calls = thr[u].calls]]
    /\ orphans' = <<>>
    /\ op' = Done("sigbus", thr[t].b, thr[t].k, thr[t].v, <<>>, FALSE)
    /\ UNCHANGED <<files, pid, hist, pure>>

\* listVersions: one pass over the shard directory
CallListVersions(t, b, k) ==
    /\ thr[t].pc = "idle"
    /\ thr[t].calls < MaxCalls
    /\ \E versions \in listVersions(files, b, k) :
          op' = [Done("listVersions", b, k, <<>>, <<>>, TRUE) EXCEPT !.names = versions]
    /\ thr' = [thr EXCEPT ![t] = [IdleThread EXCEPT !.call = "listVersions",
                                     !.b = b, !.k = k, !.calls = thr[t].calls + 1]]
    /\ UNCHANGED <<files, orphans, pid, hist, pure>>

NextConc ==
    \/ \E t \in Threads, d \in ConcPayloads, v \in ConcVersions :
          CallPut(t, BucketA, KeyA, d, v)
          /\ UNCHANGED <<indexer, cache_, staticVars>>
    \/ \E t \in Threads : PutOpen(t)
          /\ UNCHANGED <<indexer, cache_, staticVars>>
    \/ \E t \in Threads, n \in 1..MaxChunk : PutWrite(t, n)
          /\ UNCHANGED <<indexer, cache_, staticVars>>
    \/ \E t \in Threads : PutRename(t)
          /\ UNCHANGED <<indexer, cache_, staticVars>>
    \/ \E t \in Threads : PutUnlinkTmp(t)
          /\ UNCHANGED <<indexer, cache_, staticVars>>
    \/ \E t \in Threads : PutList(t)
          /\ UNCHANGED <<indexer, cache_, staticVars>>
    \/ \E t \in Threads : PutReap(t)
          /\ UNCHANGED <<indexer, cache_, staticVars>>
    \/ \E t \in Threads, v \in ConcVersions : CallGet(t, BucketA, KeyA, v)
          /\ UNCHANGED <<indexer, cache_, staticVars>>
    \/ \E t \in Threads, v \in ConcVersions : CallSizeOf(t, BucketA, KeyA, v)
          /\ UNCHANGED <<indexer, cache_, staticVars>>
    \/ \E t \in Threads : Resolve(t)
          /\ UNCHANGED <<indexer, cache_, staticVars>>
    \/ \E t \in Threads : GetCheck(t)
          /\ UNCHANGED <<indexer, cache_, staticVars>>
    \/ \E t \in Threads : Stat(t)
          /\ UNCHANGED <<indexer, cache_, staticVars>>
    \/ \E t \in Threads : GetOpen(t)
          /\ UNCHANGED <<indexer, cache_, staticVars>>
    \/ \E t \in Threads : GetCopy(t)
          /\ UNCHANGED <<indexer, cache_, staticVars>>
    \/ \E t \in Threads : GetSigbus(t)
          /\ UNCHANGED <<indexer, cache_, staticVars>>
    \/ \E t \in Threads : CallListVersions(t, BucketA, KeyA)
          /\ UNCHANGED <<indexer, cache_, staticVars>>

\* the store after put("A", "a", {1, 2}) ran alone in a fresh root
InitConc ==
    /\ files = FsWrite(<<>>, pathForKey(BucketA, KeyA, NoVersion), <<1, 2>>)
    /\ orphans = <<>>
    /\ pid = FirstPid
    /\ thr = [t \in Threads |-> IdleThread]
    /\ op = NoOp
    /\ hist = {}
    /\ pure = FALSE
    /\ indexer = NoIndex
    /\ cache_ = NoCache
    /\ StaticIdle

SpecConc == InitConc /\ [][NextConc]_vars

(* SpecConcPut: two threads putting to a key that already holds 3 versions *)

PutVersions == {NoVersion, <<49>>, <<51>>}     \* "", "1", "3"

\* the store after put("A", "a", {3}, v) for v = "", "1", "2" ran alone
InitThreeVersions ==
    /\ files = [q \in {pathForKey(BucketA, KeyA, v) : v \in {NoVersion, <<49>>, <<50>>}}
                  |-> <<3>>]
    /\ orphans = <<>>
    /\ pid = FirstPid
    /\ thr = [t \in Threads |-> IdleThread]
    /\ op = NoOp
    /\ hist = {}
    /\ pure = FALSE
    /\ indexer = NoIndex
    /\ cache_ = NoCache
    /\ StaticIdle

NextConcPut ==
    \/ \E t \in Threads, v \in PutVersions : CallPut(t, BucketA, KeyA, <<3>>, v)
          /\ UNCHANGED <<indexer, cache_, staticVars>>
    \/ \E t \in Threads : PutOpen(t)
          /\ UNCHANGED <<indexer, cache_, staticVars>>
    \/ \E t \in Threads, n \in 1..MaxChunk : PutWrite(t, n)
          /\ UNCHANGED <<indexer, cache_, staticVars>>
    \/ \E t \in Threads : PutRename(t)
          /\ UNCHANGED <<indexer, cache_, staticVars>>
    \/ \E t \in Threads : PutUnlinkTmp(t)
          /\ UNCHANGED <<indexer, cache_, staticVars>>
    \/ \E t \in Threads : PutList(t)
          /\ UNCHANGED <<indexer, cache_, staticVars>>
    \/ \E t \in Threads : PutReap(t)
          /\ UNCHANGED <<indexer, cache_, staticVars>>
    \/ \E t \in Threads : CallListVersions(t, BucketA, KeyA)
          /\ UNCHANGED <<indexer, cache_, staticVars>>

SpecConcPut == InitThreeVersions /\ [][NextConcPut]_vars

----------------------------------------------------------------------------
(* LRUCache (blob_storage_io.cpp).  order_ is a std::list: a sequence of     *)
(* nodes, front first; a list iterator is the id of the node it designates.  *)
(* A payload is a shared_ptr: null, or a vector of bytes.                    *)

NullData == [null |-> TRUE, bytes |-> <<>>]
VectorOf(bytes) == [null |-> FALSE, bytes |-> bytes]

\* data ? data->size() : 0
dataSize(data) == IF data.null THEN 0 ELSE Len(data.bytes)

LRUCache(maxBytes) ==
    [maxBytes_ |-> maxBytes, currentBytes_ |-> 0, order_ |-> <<>>, map_ |-> <<>>]

NodeIds(order) == {order[j].id : j \in DOMAIN order}

\* the address of a newly allocated list node
FreshNode(order) ==
    CHOOSE n \in 1..(Len(order) + 1) : n \notin NodeIds(order)

\* order_.push_front(key); the result of order_.begin() is the new node's id
push_front(order, key) == <<[id |-> FreshNode(order), key |-> key]>> \o order

\* order_.erase(it)
ListErase(order, it) == SelectSeq(order, LAMBDA node : node.id # it)

MapErase(map, key) == [q \in DOMAIN map \ {key} |-> map[q]]

MapSet(map, key, entry) ==
    [q \in DOMAIN map \cup {key} |-> IF q = key THEN entry ELSE map[q]]

\* invalidate that leaves currentBytes_ as it is
invalidate_keepsBytes(c, key) ==
    IF key \notin DOMAIN c.map_ THEN c
    ELSE [c EXCEPT !.order_ = ListErase(c.order_, c.map_[key].it),
                   !.map_ = MapErase(c.map_, key)]

\* LRUCache::invalidate
invalidate(c, key) ==
    IF key \notin DOMAIN c.map_ THEN c
    ELSE [c EXCEPT !.currentBytes_ = c.currentBytes_ - dataSize(c.map_[key].data),
                   !.order_ = ListErase(c.order_, c.map_[key].it),
                   !.map_ = MapErase(c.map_, key)]

\* the eviction loop taking its victim from the front of order_
RECURSIVE evictIfNeeded_newestFirst(_)
evictIfNeeded_newestFirst(c) ==
    IF ~(c.currentBytes_ > c.maxBytes_ /\ c.order_ # <<>>) THEN c
    ELSE LET newest == c.order_[1].key
             erased == IF newest \in DOMAIN c.map_
                       THEN [c EXCEPT !.currentBytes_ =
                                          c.currentBytes_ - dataSize(c.map_[newest].data),
                                      !.map_ = MapErase(c.map_, newest)]
                       ELSE c
         IN evictIfNeeded_newestFirst([erased EXCEPT !.order_ = Tail(c.order_)])

\* the eviction loop never emptying order_ (order_.size() > 1)
RECURSIVE evictIfNeeded_keepsOne(_)
evictIfNeeded_keepsOne(c) ==
    IF ~(c.currentBytes_ > c.maxBytes_ /\ Len(c.order_) > 1) THEN c
    ELSE LET oldest == c.order_[Len(c.order_)].key
             erased == IF oldest \in DOMAIN c.map_
                       THEN [c EXCEPT !.currentBytes_ =
                                          c.currentBytes_ - dataSize(c.map_[oldest].data),
                                      !.map_ = MapErase(c.map_, oldest)]
                       ELSE c
         IN evictIfNeeded_keepsOne([erased EXCEPT
                !.order_ = SubSeq(c.order_, 1, Len(c.order_) - 1)])

RECURSIVE evictIfNeeded(_)
evictIfNeeded(c) ==
    IF ~(c.currentBytes_ > c.maxBytes_ /\ c.order_ # <<>>) THEN c
    ELSE LET oldest == c.order_[Len(c.order_)].key
             erased == IF oldest \in DOMAIN c.map_
                       THEN [c EXCEPT !.currentBytes_ =
                                          c.currentBytes_ - dataSize(c.map_[oldest].data),
                                      !.map_ = MapErase(c.map_, oldest)]
                       ELSE c
         IN evictIfNeeded([erased EXCEPT
                !.order_ = SubSeq(c.order_, 1, Len(c.order_) - 1)])

\* LRUCache::put
cachePut(c, key, data) ==
    LET inv == invalidate(c, key)
        order == push_front(inv.order_, key)
    IN evictIfNeeded([inv EXCEPT
           !.order_ = order,
           !.map_ = MapSet(inv.map_, key, [data |-> data, it |-> order[1].id]),
           !.currentBytes_ = inv.currentBytes_ + dataSize(data)])

\* get that returns the payload and leaves order_ as it is
cacheGet_noMove(c, key) ==
    IF key \notin DOMAIN c.map_ THEN [cache |-> c, data |-> NullData]
    ELSE [cache |-> c, data |-> c.map_[key].data]

\* LRUCache::get: the cache afterwards and the pointer returned
cacheGet(c, key) ==
    IF key \notin DOMAIN c.map_ THEN [cache |-> c, data |-> NullData]
    ELSE LET order == push_front(ListErase(c.order_, c.map_[key].it), key)
         IN [cache |-> [c EXCEPT !.order_ = order, !.map_[key].it = order[1].id],
             data |-> c.map_[key].data]

\* LRUCache::clear
cacheClear(c) == [c EXCEPT !.map_ = <<>>, !.order_ = <<>>, !.currentBytes_ = 0]

(* SpecLru: one thread using an LRUCache *)

MaxBytes == 3      \* greatest budget of the cache

KeyB == <<98>>                         \* "b"
LruKeys == {KeyA, KeyAB, KeyB}
Zeros(n) == [j \in 1..n |-> 0]
LruPayloads == {NullData} \cup {VectorOf(Zeros(n)) : n \in 0..(MaxBytes + 1)}

InitLru ==
    /\ files = <<>>
    /\ orphans = <<>>
    /\ pid = FirstPid
    /\ thr = [t \in Threads |-> IdleThread]
    /\ op = NoOp
    /\ hist = <<>>
    /\ pure = TRUE
    /\ indexer = NoIndex
    /\ \E maxBytes \in 0..MaxBytes : cache_ = LRUCache(maxBytes)
    /\ StaticIdle

lruFrame == <<files, orphans, pid, thr, indexer, staticVars>>

\* hist is the sequence of the puts while they are of distinct keys and
\* nothing but puts ran
LruPut(key, data) ==
    /\ cache_' = cachePut(cache_, key, data)
    /\ op' = [Done("cachePut", <<>>, key, <<>>, <<>>, TRUE) EXCEPT !.num = dataSize(data)]
    /\ pure' = (pure /\ \A j \in DOMAIN hist : hist[j].key # key)
    /\ hist' = IF pure' THEN Append(hist, [key |-> key, data |-> data]) ELSE <<>>
    /\ UNCHANGED lruFrame

LruGet(key) ==
    /\ cache_' = cacheGet(cache_, key).cache
    /\ op' = [Done("cacheGet", <<>>, key, <<>>, <<>>, TRUE)
                 EXCEPT !.flag = ~cacheGet(cache_, key).data.null]
    /\ pure' = FALSE
    /\ hist' = <<>>
    /\ UNCHANGED lruFrame

LruInvalidate(key) ==
    /\ cache_' = invalidate(cache_, key)
    /\ op' = Done("invalidate", <<>>, key, <<>>, <<>>, TRUE)
    /\ pure' = FALSE
    /\ hist' = <<>>
    /\ UNCHANGED lruFrame

LruClear ==
    /\ cache_' = cacheClear(cache_)
    /\ op' = Done("clear", <<>>, <<>>, <<>>, <<>>, TRUE)
    /\ pure' = FALSE
    /\ hist' = <<>>
    /\ UNCHANGED lruFrame

NextLru ==
    \/ \E key \in LruKeys, data \in LruPayloads : LruPut(key, data)
    \/ \E key \in LruKeys : LruGet(key)
    \/ \E key \in LruKeys : LruInvalidate(key)
    \/ LruClear

SpecLru == InitLru /\ [][NextLru]_vars

----------------------------------------------------------------------------
(* FastBlobIndexer (blob_indexer.cpp).  hashIndex_ maps a key to its         *)
(* BlobMeta; sortedIndex_ maps a key to a BlobMeta*: the key of the          *)
(* hashIndex_ node the pointer designates.                                   *)

BlobMeta(size, modTime) == [size |-> size, modTime |-> modTime]

onPut_hashOnly(ix, key, size, now) ==
    [hashIndex_ |-> MapSet(ix.hashIndex_, key, BlobMeta(size, now)),
     sortedIndex_ |-> ix.sortedIndex_]

onPut(ix, key, size, now) ==
    [hashIndex_ |-> MapSet(ix.hashIndex_, key, BlobMeta(size, now)),
     sortedIndex_ |-> MapSet(ix.sortedIndex_, key, key)]

onRemove(ix, key) ==
    [hashIndex_ |-> MapErase(ix.hashIndex_, key),
     sortedIndex_ |-> MapErase(ix.sortedIndex_, key)]

\* FastBlobIndexer::clear
indexerClear(ix) == [hashIndex_ |-> <<>>, sortedIndex_ |-> <<>>]

\* the keys of sortedIndex_ in the order std::map iterates them
sortedKeys(ix) == Ascending(DOMAIN ix.sortedIndex_)

allKeys(ix) == sortedKeys(ix)

\* FastBlobIndexer::exists
indexed(ix, key) == key \in DOMAIN ix.hashIndex_

count(ix) == Cardinality(DOMAIN ix.hashIndex_)

RECURSIVE SumSizes(_, _)
SumSizes(hashIndex, keys) ==
    IF keys = {} THEN 0
    ELSE LET key == CHOOSE q \in keys : TRUE
         IN hashIndex[key].size + SumSizes(hashIndex, keys \ {key})

totalBytes(ix) == SumSizes(ix.hashIndex_, DOMAIN ix.hashIndex_)

\* std::map::upper_bound: position of the first key greater than x
upper_bound(keys, x) ==
    LET after == {j \in 1..Len(keys) : StrLess(x, keys[j])}
    IN IF after = {} THEN Len(keys) + 1
       ELSE CHOOSE j \in after : \A g \in after : j <= g

\* std::map::lower_bound: position of the first key not less than x; the
\* position Len(keys) + 1 is end()
lower_bound(keys, x) ==
    LET notLess == {j \in 1..Len(keys) : ~StrLess(keys[j], x)}
    IN IF notLess = {} THEN Len(keys) + 1
       ELSE CHOOSE j \in notLess : \A g \in notLess : j <= g

\* it->first.compare(0, prefix.size(), prefix) == 0
ComparesEqual(key, prefix) ==
    SubSeq(key, 1, IF Len(prefix) < Len(key) THEN Len(prefix) ELSE Len(key)) = prefix

\* the loop of keysWithPrefix from position it
RECURSIVE prefixLoop(_, _, _)
prefixLoop(keys, prefix, it) ==
    IF it = Len(keys) + 1 THEN <<>>
    ELSE IF ~ComparesEqual(keys[it], prefix) THEN <<>>
    ELSE <<keys[it]>> \o prefixLoop(keys, prefix, it + 1)

keysWithPrefix(ix, prefix) ==
    prefixLoop(sortedKeys(ix), prefix, lower_bound(sortedKeys(ix), prefix))

\* the loop of keysInRange from position it: ub is set when the loop reaches
\* end() without meeting itEnd and dereferences it
RECURSIVE rangeLoop(_, _, _)
rangeLoop(keys, it, itEnd) ==
    IF it = itEnd THEN [ub |-> FALSE, names |-> <<>>]
    ELSE IF it = Len(keys) + 1 THEN [ub |-> TRUE, names |-> <<>>]
    ELSE LET rest == rangeLoop(keys, it + 1, itEnd)
         IN [ub |-> rest.ub, names |-> <<keys[it]>> \o rest.names]

keysInRange(ix, start, end) ==
    rangeLoop(sortedKeys(ix), lower_bound(sortedKeys(ix), start),
              lower_bound(sortedKeys(ix), end))

\* FastBlobIndexer::indexFilePath: root + "/.blob_index"
indexFilePath == root_ \o <<47, 46, 98, 108, 111, 98, 95, 105, 110, 100, 101, 120>>

Tab == 9           \* '\t'
Newline == 10      \* '\n'

\* ofs << key << '\t' << meta.size << '\t' << meta.modTime << '\n'
snapshotLine(key, meta) ==
    key \o <<Tab>> \o to_string(meta.size) \o <<Tab>> \o to_string(meta.modTime)
        \o <<Newline>>

\* the lines of hashIndex written in the order the unordered_map iterates
RECURSIVE snapshotText(_, _)
snapshotText(hashIndex, order) ==
    IF order = <<>> THEN <<>>
    ELSE snapshotLine(Head(order), hashIndex[Head(order)])
         \o snapshotText(hashIndex, Tail(order))

\* FastBlobIndexer::saveToFile, the iteration order of hashIndex_ given
saveToFile(ix, fs, order) ==
    FsWrite(fs, indexFilePath, snapshotText(ix.hashIndex_, order))

\* the lines std::getline reads from a text, one after the other
RECURSIVE getlines(_)
getlines(text) ==
    IF text = <<>> THEN <<>>
    ELSE LET nl == StrFind(text, <<Newline>>)
         IN IF nl = -1 THEN <<text>>
            ELSE <<SubSeq(text, 1, nl)>> \o getlines(SubSeq(text, nl + 2, Len(text)))

\* std::string::find(c, pos): 0-based position of the first c at or after
\* pos, -1 = npos
FindFrom(line, c, pos) ==
    LET hits == {i \in pos..(Len(line) - 1) : line[i + 1] = c}
    IN IF hits = {} THEN -1 ELSE CHOOSE i \in hits : \A j \in hits : i <= j

\* std::string::substr(pos, n): at most n characters, up to the end
substr(line, pos, n) ==
    SubSeq(line, pos + 1, IF pos + n < Len(line) THEN pos + n ELSE Len(line))

IsSpace(c) == c \in {9, 10, 11, 12, 13, 32}
IsDigit(c) == c \in 48..57

RECURSIVE SkipSpace(_)
SkipSpace(str) ==
    IF str # <<>> /\ IsSpace(Head(str)) THEN SkipSpace(Tail(str)) ELSE str

\* the value of the leading decimal digits of str, after acc
RECURSIVE DigitsValue(_, _)
DigitsValue(str, acc) ==
    IF str # <<>> /\ IsDigit(Head(str))
    THEN DigitsValue(Tail(str), 10 * acc + (Head(str) - 48))
    ELSE acc

\* std::stoull: leading white space, an optional sign, then decimal digits;
\* what follows the digits is ignored; without a digit it throws
\* std::invalid_argument (ok = FALSE).  A negated value n stands for
\* 2^64 - n; the values of this model stay far below 2^64.
stoull(str) ==
    LET body == SkipSpace(str)
        signed == body # <<>> /\ Head(body) \in {43, 45}
        digits == IF signed THEN Tail(body) ELSE body
    IN IF digits = <<>> \/ ~IsDigit(Head(digits))
       THEN [ok |-> FALSE, val |-> 0]
       ELSE [ok |-> TRUE,
             val |-> IF signed /\ Head(body) = 45
                     THEN 0 - DigitsValue(digits, 0)
                     ELSE DigitsValue(digits, 0)]

\* the getline loop of loadFromFile: threw is set when std::stoull throws,
\* and hashIndex is what the loop had stored by then
RECURSIVE loadLines(_, _)
loadLines(lines, hashIndex) ==
    IF lines = <<>> THEN [threw |-> FALSE, hashIndex |-> hashIndex]
    ELSE LET line == Head(lines)
             tab1 == FindFrom(line, Tab, 0)
             tab2 == IF tab1 = -1 THEN -1 ELSE FindFrom(line, Tab, tab1 + 1)
         IN IF tab1 = -1 \/ tab2 = -1
            THEN loadLines(Tail(lines), hashIndex)
            ELSE LET key == substr(line, 0, tab1)
                     size == stoull(substr(line, tab1 + 1, tab2 - tab1 - 1))
                     modTime == stoull(substr(line, tab2 + 1, Len(line)))
                 IN IF ~size.ok \/ ~modTime.ok
                    THEN [threw |-> TRUE, hashIndex |-> hashIndex]
                    ELSE loadLines(Tail(lines),
                                   MapSet(hashIndex, key, BlobMeta(size.val, modTime.val)))

\* ifs.eof() once the getline loop has run off the end of the file
eof == TRUE

\* FastBlobIndexer::loadFromFile: the value returned (ret), whether it threw
\* instead, and the index left behind
loadFromFile(ix, fs) ==
    IF ~fileExists(fs, indexFilePath)
    THEN [ret |-> FALSE, threw |-> FALSE, ix |-> ix]
    ELSE LET r == loadLines(getlines(fs[indexFilePath]), <<>>)
         IN IF r.threw
            THEN [ret |-> FALSE, threw |-> TRUE,
                  ix |-> [hashIndex_ |-> r.hashIndex, sortedIndex_ |-> <<>>]]
            ELSE [ret |-> (r.hashIndex # <<>> \/ eof), threw |-> FALSE,
                  ix |-> [hashIndex_ |-> r.hashIndex,
                          sortedIndex_ |-> [key \in DOMAIN r.hashIndex |-> key]]]

----------------------------------------------------------------------------
(* SpecIndex: one thread calling a FastBlobIndexer's updates and queries *)

KeyC == <<99>>                         \* "c"
IndexKeys == {KeyA, KeyAB, KeyB}
QueryStrings == {<<>>, KeyA, KeyAB, KeyB, KeyC}
Sizes == {0, 10}                       \* blob sizes handed to onPut
Times == {1, 2}                        \* values of nowTimestamp()

\* a FastBlobIndexer over a store that was initialised and is empty.  hist
\* follows a snapshot through saveToFile, clear, loadFromFile: it holds the
\* hashIndex_ that was saved and the stage reached, and is emptied by any
\* other step.
InitIndex ==
    /\ files = <<>>
    /\ orphans = <<>>
    /\ pid = FirstPid
    /\ thr = [t \in Threads |-> IdleThread]
    /\ op = NoOp
    /\ hist = {}
    /\ pure = FALSE
    /\ indexer = NoIndex
    /\ cache_ = NoCache
    /\ StaticIdle

ixFrame == <<orphans, pid, thr, cache_, staticVars>>

OnPut(key, size, now) ==
    /\ indexer' = onPut(indexer, key, size, now)
    /\ op' = [Done("onPut", <<>>, key, <<>>, <<>>, TRUE) EXCEPT !.num = size]
    /\ hist' = {}
    /\ UNCHANGED <<files, pure, ixFrame>>

OnRemove(key) ==
    /\ indexer' = onRemove(indexer, key)
    /\ op' = Done("onRemove", <<>>, key, <<>>, <<>>, TRUE)
    /\ hist' = {}
    /\ UNCHANGED <<files, pure, ixFrame>>

IndexerClear ==
    /\ indexer' = indexerClear(indexer)
    /\ op' = Done("clear", <<>>, <<>>, <<>>, <<>>, TRUE)
    /\ hist' = {[h EXCEPT !.stage = "cleared"] : h \in {g \in hist : g.stage = "saved"}}
    /\ UNCHANGED <<files, pure, ixFrame>>

KeysWithPrefix(prefix) ==
    /\ op' = [Done("keysWithPrefix", <<>>, prefix, <<>>, <<>>, TRUE)
                 EXCEPT !.names = keysWithPrefix(indexer, prefix)]
    /\ UNCHANGED <<files, hist, pure, indexer, ixFrame>>

\* what a loop that steps past end() may hand back when it returns at all
Garbage == {<<>>} \cup {<<key>> : key \in IndexKeys}

\* ok is FALSE when the call does not return.  Stepping past end() is
\* undefined: the call crashes or spins, or returns what it collected
\* followed by whatever the walk beyond the map produced.
KeysInRange(start, end) ==
    /\ LET r == keysInRange(indexer, start, end)
       IN IF ~r.ub
          THEN op' = [Done("keysInRange", <<>>, start, end, <<>>, TRUE)
                         EXCEPT !.names = r.names]
          ELSE \/ op' = Done("keysInRange", <<>>, start, end, <<>>, FALSE)
               \/ \E tail \in Garbage :
                      op' = [Done("keysInRange", <<>>, start, end, <<>>, TRUE)
                                EXCEPT !.names = r.names \o tail]
    /\ UNCHANGED <<files, hist, pure, indexer, ixFrame>>

NextIndex ==
    \/ \E key \in IndexKeys, size \in Sizes, now \in Times : OnPut(key, size, now)
    \/ \E key \in IndexKeys : OnRemove(key)
    \/ IndexerClear
    \/ \E prefix \in QueryStrings : KeysWithPrefix(prefix)
    \/ \E start \in QueryStrings, end \in QueryStrings : KeysInRange(start, end)

SpecIndex == InitIndex /\ [][NextIndex]_vars

----------------------------------------------------------------------------
(* SpecSnapshot: one thread saving and loading the snapshot of a            *)
(* FastBlobIndexer, and the snapshot file written from outside              *)

KeyTab == <<97, 9>>                    \* "a\t"
SnapKeys == {KeyA, KeyB, KeyTab}

\* snapshot files found on disk: one well formed, one with a line that has no
\* tab, one with a line that has one tab, two with a field that is no number
SnapshotTexts ==
    { <<97, 9, 49, 48, 9, 50, 10>>,              \* "a\t10\t2\n"
      <<120, 10>>,                               \* "x\n"
      <<97, 9, 49, 10>>,                         \* "a\t1\n"
      <<97, 9, 122, 9, 50, 10>>,                 \* "a\tz\t2\n"
      <<98, 9, 48, 9, 49, 10, 97, 9, 49, 9, 122, 10>> }   \* "b\t0\t1\na\t1\tz\n"

SaveToFile ==
    /\ \E order \in Orders(DOMAIN indexer.hashIndex_) :
           files' = saveToFile(indexer, files, order)
    /\ op' = Done("saveToFile", <<>>, <<>>, <<>>, <<>>, TRUE)
    /\ hist' = {[stage |-> "saved", hashIndex |-> indexer.hashIndex_]}
    /\ UNCHANGED <<indexer, pure, ixFrame>>

\* ok is FALSE when the call throws; flag is the value returned
LoadFromFile ==
    /\ indexer' = loadFromFile(indexer, files).ix
    /\ op' = [Done("loadFromFile", <<>>, <<>>, <<>>, <<>>, ~loadFromFile(indexer, files).threw)
                 EXCEPT !.flag = loadFromFile(indexer, files).ret]
    /\ hist' = {[h EXCEPT !.stage = "loaded"] : h \in {g \in hist : g.stage = "cleared"}}
    /\ UNCHANGED <<files, pure, ixFrame>>

\* the snapshot file replaced by another program
ExternalWrite(text) ==
    /\ files' = FsWrite(files, indexFilePath, text)
    /\ op' = Done("externalWrite", <<>>, <<>>, <<>>, <<>>, TRUE)
    /\ hist' = {}
    /\ UNCHANGED <<indexer, pure, ixFrame>>

NextSnapshot ==
    \/ \E key \in SnapKeys, size \in Sizes, now \in Times : OnPut(key, size, now)
    \/ \E key \in SnapKeys : OnRemove(key)
    \/ IndexerClear
    \/ SaveToFile
    \/ LoadFromFile
    \/ \E text \in SnapshotTexts : ExternalWrite(text)

SpecSnapshot == InitIndex /\ [][NextSnapshot]_vars

----------------------------------------------------------------------------
(* SpecFacade: one thread using an IndexedBlobStorage, its indexer() and     *)
(* rebuild                                                                   *)

bucket_ == BucketA                     \* IndexedBlobStorage::bucket_

\* unsigned nT = std::min(8u, std::thread::hardware_concurrency())
MaxWorkers == 8
workerCount(hw) == IF hw < MaxWorkers THEN hw ELSE MaxWorkers

\* size_t s = idx.fetch_add(1024)
ChunkSize == 1024

\* the positions of keys some worker handles: each of the nT workers claims
\* chunks until one starts at or after keys.size()
handled(n, nT) ==
    IF nT = 0 THEN {}
    ELSE {i \in 1..n : \E chunk \in 0..((n - 1) \div ChunkSize) :
                          chunk * ChunkSize < i /\ i <= (chunk + 1) * ChunkSize}

\* what a worker stores for a key: sizeOf and the time, or zeros when sizeOf
\* throws
workerMetas(fs, bucket, key, now) ==
    {IF sz.ok THEN BlobMeta(sz.num, now) ELSE BlobMeta(0, 0) :
        sz \in {sizeOfWith(fs, bucket, key, NoVersion, versions) :
                   versions \in listVersions(fs, bucket, key)}}

\* the loop over metas at the end of rebuild
RECURSIVE storeMetas(_, _, _)
storeMetas(keys, metas, hashIndex) ==
    IF keys = <<>> THEN hashIndex
    ELSE storeMetas(Tail(keys), Tail(metas),
                    IF Head(metas).size = 0 /\ Head(metas).modTime = 0
                    THEN hashIndex
                    ELSE MapSet(hashIndex, Head(keys), Head(metas)))

\* every index FastBlobIndexer::rebuild(bucket) may leave, hw being the value
\* of hardware_concurrency()
rebuild(fs, bucket, hw, now) ==
    {[hashIndex_ |-> storeMetas(keys, metas, <<>>),
      sortedIndex_ |-> [key \in DOMAIN storeMetas(keys, metas, <<>>) |-> key]] :
        <<keys, metas>> \in
            {km \in UNION {{<<ks, ms>> :
                              ms \in [DOMAIN ks -> {BlobMeta(0, 0)} \cup
                                        UNION {workerMetas(fs, bucket, ks[i], now) : i \in DOMAIN ks}]} :
                           ks \in list(fs, bucket)} :
                \A i \in DOMAIN km[1] :
                    km[2][i] \in IF i \in handled(Len(km[1]), workerCount(hw))
                                 THEN workerMetas(fs, bucket, km[1][i], now)
                                 ELSE {BlobMeta(0, 0)}}}

FacadeKeys == {KeyA, KeyAB, <<>>}      \* the empty key: its put throws
HardwareConcurrency == {0, 1, 2}       \* 0: the value is not computable

\* IndexedBlobStorage::put
FacadePut(key, data, now) ==
    /\ Put(bucket_, key, data, NoVersion)
    /\ indexer' = IF op'.ok THEN onPut(indexer, key, Len(data), now) ELSE indexer
    /\ UNCHANGED <<cache_, staticVars>>

FacadeRemove_always(key) ==
    /\ Remove(bucket_, key, NoVersion)
    /\ indexer' = onRemove(indexer, key)
    /\ UNCHANGED <<cache_, staticVars>>

\* IndexedBlobStorage::remove; flag is the value returned
FacadeRemove(key) ==
    /\ Remove(bucket_, key, NoVersion)
    /\ indexer' = IF op'.flag THEN onRemove(indexer, key) ELSE indexer
    /\ UNCHANGED <<cache_, staticVars>>

\* IndexedBlobStorage::rebuildIndex; num is the value of
\* hardware_concurrency()
Rebuild(hw, now) ==
    /\ indexer' \in rebuild(files, bucket_, hw, now)
    /\ op' = [Done("rebuild", bucket_, <<>>, <<>>, <<>>, TRUE) EXCEPT !.num = hw]
    /\ hist' = {}
    /\ UNCHANGED <<files, pure, ixFrame>>

NextFacade ==
    \/ \E key \in FacadeKeys, data \in Payloads, now \in Times : FacadePut(key, data, now)
    \/ \E key \in FacadeKeys : FacadeRemove(key)
    \/ \E key \in FacadeKeys, size \in Sizes, now \in Times : OnPut(key, size, now)
    \/ \E key \in FacadeKeys : OnRemove(key)
    \/ \E hw \in HardwareConcurrency, now \in Times : Rebuild(hw, now)

SpecFacade == InitIndex /\ [][NextFacade]_vars

----------------------------------------------------------------------------
(* SpecCached: one thread using a CachedBlobStorage (blob_storage_io.cpp)    *)

\* std::string bucket = "default"
DefaultBucket == <<100, 101, 102, 97, 117, 108, 116>>

CachedKeys == {KeyA, KeyB, <<>>}       \* the empty key: its put throws
CachedPayloads == {<<>>, <<1>>, <<2, 3>>}

\* a CachedBlobStorage over an empty, initialised root
InitCached ==
    /\ files = <<>>
    /\ orphans = <<>>
    /\ pid = FirstPid
    /\ thr = [t \in Threads |-> IdleThread]
    /\ op = NoOp
    /\ hist = {}
    /\ pure = FALSE
    /\ indexer = NoIndex
    /\ \E cacheBytes \in 0..MaxBytes : cache_ = LRUCache(cacheBytes)
    /\ StaticIdle

\* put that leaves the cache alone
CachedPut_keepsCache(key, data) ==
    /\ Put(DefaultBucket, key, data, NoVersion)
    /\ UNCHANGED <<cache_, indexer, staticVars>>

\* CachedBlobStorage::put: a put that throws does not reach invalidate
CachedPut(key, data) ==
    /\ Put(DefaultBucket, key, data, NoVersion)
    /\ cache_' = IF op'.ok THEN invalidate(cache_, key) ELSE cache_
    /\ UNCHANGED <<indexer, staticVars>>

\* CachedBlobStorage::get; flag tells that the bytes came from the cache
CachedGet(key) ==
    /\ AllIdle
    /\ LET cached == cacheGet(cache_, key)
       IN IF ~cached.data.null
          THEN /\ cache_' = cached.cache
               /\ op' = [Done("get", DefaultBucket, key, NoVersion, <<>>, TRUE)
                            EXCEPT !.bytes = cached.data.bytes, !.flag = TRUE]
          ELSE \E versions \in listVersions(files, DefaultBucket, key) :
                  LET got == getWith(files, DefaultBucket, key, NoVersion, versions)
                  IN /\ cache_' = IF got.ok
                                  THEN cachePut(cached.cache, key, VectorOf(got.bytes))
                                  ELSE cached.cache
                     /\ op' = [Done("get", DefaultBucket, key, NoVersion, <<>>, got.ok)
                                  EXCEPT !.bytes = got.bytes]
    /\ UNCHANGED <<files, orphans, pid, thr, hist, pure, indexer, staticVars>>

\* CachedBlobStorage::remove
CachedRemove(key) ==
    /\ Remove(DefaultBucket, key, NoVersion)
    /\ cache_' = invalidate(cache_, key)
    /\ UNCHANGED <<indexer, staticVars>>

NextCached ==
    \/ \E key \in CachedKeys, data \in CachedPayloads : CachedPut(key, data)
    \/ \E key \in CachedKeys : CachedGet(key)
    \/ \E key \in CachedKeys : CachedRemove(key)

SpecCached == InitCached /\ [][NextCached]_vars

----------------------------------------------------------------------------
(* SpecCachedConc: two threads using one CachedBlobStorage.  The store's     *)
(* calls are taken whole; the cache's calls are taken at the points where    *)
(* mu_ is acquired and released.  A thread holds mu_ exactly while its pc is *)
(* in LockedPcs.  In a thread, i is the list node its map iterator led to,   *)
(* and versions holds the bytes of the put that had returned for the key     *)
(* when its get was called.                                                  *)

MaxCachedCalls == 2    \* calls one thread makes on the CachedBlobStorage

ConcCachedPayloads == {<<1>>, <<2, 3>>}

LockedPcs == {"relink", "insert"}

\* std::lock_guard<std::mutex> lk(mu_) can be constructed
MutexFree == \A t \in Threads : thr[t].pc \notin LockedPcs

\* the store after put("a", {1}) through a CachedBlobStorage of MaxBytes
InitCachedConc ==
    /\ files = FsWrite(<<>>, pathForKey(DefaultBucket, KeyA, NoVersion), <<1>>)
    /\ orphans = <<>>
    /\ pid = FirstPid
    /\ thr = [t \in Threads |-> IdleThread]
    /\ op = NoOp
    /\ hist = {}
    /\ pure = FALSE
    /\ indexer = NoIndex
    /\ cache_ = LRUCache(MaxBytes)
    /\ StaticIdle

cachedFrame == <<orphans, pid, pure, indexer, staticVars>>

\* the threads inside a put or a remove
Writing == {t \in Threads : thr[t].pc # "idle" /\ thr[t].call \in {"put", "remove"}}

\* off = 1 marks a put during which another put or remove was running
Overlapped == [t \in Threads |-> IF t \in Writing THEN [thr[t] EXCEPT !.off = 1] ELSE thr[t]]

\* hist is the put that has returned with no other put or remove running
\* during it or called since
CallCachedPut(t, key, data) ==
    /\ thr[t].pc = "idle"
    /\ thr[t].calls < MaxCachedCalls
    /\ thr' = [Overlapped EXCEPT ![t] =
                  [Entered(t, "put", DefaultBucket, key, NoVersion, data, "storePut")
                      EXCEPT !.off = IF Writing = {} THEN 0 ELSE 1]]
    /\ hist' = {}
    /\ UNCHANGED <<files, cache_, op, cachedFrame>>

CallCachedRemove(t, key) ==
    /\ thr[t].pc = "idle"
    /\ thr[t].calls < MaxCachedCalls
    /\ thr' = [Overlapped EXCEPT ![t] =
                  Entered(t, "remove", DefaultBucket, key, NoVersion, <<>>, "invFind")]
    /\ hist' = {}
    /\ UNCHANGED <<files, cache_, op, cachedFrame>>

CallCachedGet(t, key) ==
    /\ thr[t].pc = "idle"
    /\ thr[t].calls < MaxCachedCalls
    /\ thr' = [thr EXCEPT ![t] =
                  [Entered(t, "get", DefaultBucket, key, NoVersion, <<>>, "getLock")
                      EXCEPT !.versions = IF \E h \in hist : h.k = key
                                          THEN <<(CHOOSE h \in hist : h.k = key).data>>
                                          ELSE <<>>]]
    /\ UNCHANGED <<files, cache_, op, hist, cachedFrame>>

\* store_.put(bucket, key, data)
StorePut(t) ==
    /\ thr[t].pc = "storePut"
    /\ LET w == writeFileAtomic(files, thr[t].path, thr[t].data, pid)
       IN IF ~w.ok
          THEN /\ files' = w.fs
               /\ thr' = [thr EXCEPT ![t] = Returned(t)]
               /\ op' = Done("put", thr[t].b, thr[t].k, thr[t].v, thr[t].data, FALSE)
          ELSE /\ \E versions \in listVersions(w.fs, thr[t].b, thr[t].k) :
                      files' = reapFrom(w.fs, thr[t].b, thr[t].k,
                                        sortDescending(versions), KeepVersions)
               /\ thr' = [thr EXCEPT ![t].pc = "invFind"]
               /\ op' = op
    /\ UNCHANGED <<cache_, hist, cachedFrame>>

\* thread t once cache_.invalidate(key) has returned: put returns, remove goes
\* on to store_.remove
Invalidated(t) ==
    [thr |-> IF thr[t].call = "put" THEN Returned(t)
             ELSE [thr[t] EXCEPT !.pc = "storeRemove", !.i = 0],
     op |-> IF thr[t].call = "put"
            THEN Done("put", thr[t].b, thr[t].k, thr[t].v, thr[t].data, TRUE)
            ELSE op,
     hist |-> IF thr[t].call # "put" THEN hist
              ELSE IF thr[t].off = 1 THEN {}
              ELSE {[k |-> thr[t].k, data |-> thr[t].data]}]

\* every thread once the process has died
Crashed == [t \in Threads |-> [IdleThread EXCEPT !.pc = "dead"]]

\* LRUCache::invalidate, called without mu_: auto it = map_.find(key)
InvFind(t) ==
    /\ thr[t].pc = "invFind"
    /\ IF thr[t].k \notin DOMAIN cache_.map_
       THEN /\ thr' = [thr EXCEPT ![t] = Invalidated(t).thr]
            /\ op' = Invalidated(t).op
            /\ hist' = Invalidated(t).hist
       ELSE /\ thr' = [thr EXCEPT ![t].pc = "invErase",
                                  ![t].i = cache_.map_[thr[t].k].it]
            /\ UNCHANGED <<op, hist>>
    /\ UNCHANGED <<files, cache_, cachedFrame>>

\* LRUCache::invalidate: currentBytes_ -= ..., order_.erase, map_.erase(it).
\* When the entry found was erased or replaced meanwhile, it dangles: the
\* process dies, or the erase acts on what the map holds now.
InvErase(t) ==
    /\ thr[t].pc = "invErase"
    /\ \/ /\ cache_' = invalidate(cache_, thr[t].k)
          /\ thr' = [thr EXCEPT ![t] = Invalidated(t).thr]
          /\ op' = Invalidated(t).op
          /\ hist' = Invalidated(t).hist
       \/ /\ ~(thr[t].k \in DOMAIN cache_.map_ /\ cache_.map_[thr[t].k].it = thr[t].i)
          /\ cache_' = cache_
          /\ thr' = Crashed
          /\ op' = Done("crash", thr[t].b, thr[t].k, <<>>, <<>>, FALSE)
          /\ hist' = {}
    /\ UNCHANGED <<files, cachedFrame>>

\* store_.remove(bucket, key); flag is the value returned
StoreRemove(t) ==
    /\ thr[t].pc = "storeRemove"
    /\ \E versions \in listVersions(files, thr[t].b, thr[t].k) :
          LET r == removeAll(files, thr[t].b, thr[t].k, versions, FALSE)
          IN /\ files' = r.fs
             /\ op' = [Done("remove", thr[t].b, thr[t].k, <<>>, <<>>, TRUE)
                          EXCEPT !.flag = r.any]
    /\ thr' = [thr EXCEPT ![t] = Returned(t)]
    /\ UNCHANGED <<cache_, hist, cachedFrame>>

\* what a get that returns hands back: names holds the bytes of the put that
\* had returned when the get was called
GetDone(t, ok, bytes) ==
    [Done("get", thr[t].b, thr[t].k, <<>>, <<>>, ok)
        EXCEPT !.bytes = bytes, !.names = thr[t].versions]

\* LRUCache::get: lock_guard, map_.find(key); a miss returns nullptr
GetLock(t) ==
    /\ thr[t].pc = "getLock"
    /\ MutexFree
    /\ thr' = IF thr[t].k \notin DOMAIN cache_.map_
              THEN [thr EXCEPT ![t].pc = "storeGet"]
              ELSE [thr EXCEPT ![t].pc = "relink", ![t].i = cache_.map_[thr[t].k].it]
    /\ UNCHANGED <<files, cache_, op, hist, cachedFrame>>

\* LRUCache::get: order_.erase, push_front, return it->second.data.  When
\* an invalidate erased the entry meanwhile, it dangles: the process dies, or
\* the read yields some payload.
GetRelink(t) ==
    /\ thr[t].pc = "relink"
    /\ IF thr[t].k \in DOMAIN cache_.map_ /\ cache_.map_[thr[t].k].it = thr[t].i
       THEN /\ cache_' = cacheGet(cache_, thr[t].k).cache
            /\ op' = GetDone(t, TRUE, cacheGet(cache_, thr[t].k).data.bytes)
            /\ thr' = [thr EXCEPT ![t] = Returned(t)]
            /\ hist' = hist
       ELSE \/ /\ cache_' = cache_
               /\ thr' = Crashed
               /\ op' = Done("crash", thr[t].b, thr[t].k, <<>>, <<>>, FALSE)
               /\ hist' = {}
            \/ /\ cache_' = cache_
               /\ \E bytes \in ConcCachedPayloads : op' = GetDone(t, TRUE, bytes)
               /\ thr' = [thr EXCEPT ![t] = Returned(t)]
               /\ hist' = hist
    /\ UNCHANGED <<files, cachedFrame>>

\* auto data = store_.get(bucket, key)
StoreGet(t) ==
    /\ thr[t].pc = "storeGet"
    /\ \E versions \in listVersions(files, thr[t].b, thr[t].k) :
          LET got == getWith(files, thr[t].b, thr[t].k, NoVersion, versions)
          IN IF got.ok
             THEN /\ thr' = [thr EXCEPT ![t].pc = "cachePut", ![t].data = got.bytes]
                  /\ op' = op
             ELSE /\ thr' = [thr EXCEPT ![t] = Returned(t)]
                  /\ op' = GetDone(t, FALSE, <<>>)
    /\ UNCHANGED <<files, cache_, hist, cachedFrame>>

\* LRUCache::put: lock_guard, invalidate(key)
CachePutLock(t) ==
    /\ thr[t].pc = "cachePut"
    /\ MutexFree
    /\ cache_' = invalidate(cache_, thr[t].k)
    /\ thr' = [thr EXCEPT ![t].pc = "insert"]
    /\ UNCHANGED <<files, op, hist, cachedFrame>>

\* LRUCache::put: push_front, map_[key] = ..., currentBytes_ += sz,
\* evictIfNeeded; then get returns data
CachePutInsert(t) ==
    /\ thr[t].pc = "insert"
    /\ cache_' = cachePut(cache_, thr[t].k, VectorOf(thr[t].data))
    /\ op' = GetDone(t, TRUE, thr[t].data)
    /\ thr' = [thr EXCEPT ![t] = Returned(t)]
    /\ UNCHANGED <<files, hist, cachedFrame>>

NextCachedConc ==
    \/ \E t \in Threads, data \in ConcCachedPayloads : CallCachedPut(t, KeyA, data)
    \/ \E t \in Threads : CallCachedRemove(t, KeyA)
    \/ \E t \in Threads : CallCachedGet(t, KeyA)
    \/ \E t \in Threads : StorePut(t)
    \/ \E t \in Threads : InvFind(t)
    \/ \E t \in Threads : InvErase(t)
    \/ \E t \in Threads : StoreRemove(t)
    \/ \E t \in Threads : GetLock(t)
    \/ \E t \in Threads : GetRelink(t)
    \/ \E t \in Threads : StoreGet(t)
    \/ \E t \in Threads : CachePutLock(t)
    \/ \E t \in Threads : CachePutInsert(t)

SpecCachedConc == InitCachedConc /\ [][NextCachedConc]_vars

(* ------------------------------------------------------------------ *)
(* The static indexer of src/challenge: one run of main over a mapped  *)
(* input.  A pointer is a base ("data": the mapped input, "arena",     *)
(* "null") and a byte offset from it.                                  *)
(* ------------------------------------------------------------------ *)

NullPtr == [base |-> "null", off |-> 0]

DataPtr(p) == [base |-> "data", off |-> p]

ArenaPtr(off) == [base |-> "arena", off |-> off]

\* *p: the bytes of the mapping past the end of the file read as zero
charAt(text, p) == IF p < Len(text) THEN text[p + 1] ELSE 0

\* a char is signed where this source builds (immintrin.h: x86)
signedChar(c) == IF c >= 128 THEN c - 256 ELSE c

\* a ^ b on naturals
RECURSIVE BitXor(_, _)
BitXor(a, b) ==
    IF a = 0 THEN b
    ELSE IF b = 0 THEN a
    ELSE 2 * BitXor(a \div 2, b \div 2) + ((a + b) % 2)

\* The hash is computed modulo HashWidth: xor and multiplication carry
\* upwards only, so the low 16 bits of the 64-bit hash are exactly these, and
\* they decide the slot (mask_ < HashWidth). hash32 holds the same 16 bits:
\* where find compares hash32 it goes on to compare the length and the bytes.
HashWidth == 65536

FNV_OFFSET == 8997     \* 14695981039346656037 % 65536

FNV_PRIME == 435       \* 1099511628211 % 65536

RECURSIVE fnv1aFrom(_, _)
fnv1aFrom(hash, bytes) ==
    IF bytes = <<>> THEN hash
    ELSE fnv1aFrom((BitXor(hash, Head(bytes)) * FNV_PRIME) % HashWidth, Tail(bytes))

fnv1a(bytes) == fnv1aFrom(FNV_OFFSET, bytes)

\* Arena(cap)
Arena(cap) == [capacity_ |-> cap, offset_ |-> 0, data_ |-> <<>>]

\* an alloc that hands out the offset and leaves it where it was
alloc_sameOffset(ar, src, len) ==
    IF ar.offset_ + len + 1 > ar.capacity_
    THEN [ret |-> NullPtr, arena |-> ar]
    ELSE [ret |-> ArenaPtr(ar.offset_),
          arena |-> [ar EXCEPT !.data_ = (ar.offset_ :> [src |-> src, len |-> len]) @@ @]]

\* Arena::alloc(src, len). data_ keeps, at the offset handed out, where the
\* len bytes were copied from: the mapped input is never written, so the copy
\* holds the bytes found there.
alloc(ar, src, len) ==
    LET off == ar.offset_
        bumped == [ar EXCEPT !.offset_ = off + len + 1]
    IN IF off + len + 1 > ar.capacity_
       THEN [ret |-> NullPtr, arena |-> bumped]
       ELSE [ret |-> ArenaPtr(off),
             arena |-> [bumped EXCEPT !.data_ = (off :> [src |-> src, len |-> len]) @@ @]]

\* the len bytes a non-null pointer points at
bytesAt(text, ar, ptr, len) ==
    LET from == IF ptr.base = "arena" THEN ar.data_[ptr.off].src ELSE ptr
    IN SubSeq(text, from.off + 1, from.off + len)

NoEntry == [key |-> NullPtr, keyLen |-> 0, hash32 |-> 0, size |-> 0, offset |-> 0]

\* the least power of two above cap
RECURSIVE roundUp_aboveCap(_, _)
roundUp_aboveCap(capacity, cap) ==
    IF capacity <= cap THEN roundUp_aboveCap(capacity * 2, cap) ELSE capacity

\* a table of the least power of two that holds cap entries
RECURSIVE roundUp_noDouble(_, _)
roundUp_noDouble(capacity, cap) ==
    IF capacity < cap THEN roundUp_noDouble(capacity * 2, cap) ELSE capacity

\* capacity_ = 1; while (capacity_ < cap * 2) capacity_ <<= 1;
RECURSIVE roundUp(_, _)
roundUp(capacity, cap) ==
    IF capacity < cap * 2 THEN roundUp(capacity * 2, cap) ELSE capacity

\* FastHashMap(cap): only the key of a slot is initialised
FastHashMap(cap) ==
    LET capacity == roundUp(1, cap)
    IN [capacity_ |-> capacity,
        mask_ |-> capacity - 1,
        entries_ |-> [i \in 0..(capacity - 1) |-> NoEntry]]

\* h & mask_, mask_ being a power of two less one
masked(h, mask) == h % (mask + 1)

RECURSIVE probeEmpty(_, _)
probeEmpty(table, i) ==
    IF table.entries_[i].key # NullPtr
    THEN probeEmpty(table, masked(i + 1, table.mask_))
    ELSE i

\* an insert that writes over the slot a like key holds
insert_lastWins(text, ar, table, key, keyLen, size, offset) ==
    LET keyBytes == bytesAt(text, ar, key, keyLen)
        h == fnv1a(keyBytes)
        same == {i \in DOMAIN table.entries_ :
                    /\ table.entries_[i].key # NullPtr
                    /\ table.entries_[i].keyLen = keyLen
                    /\ bytesAt(text, ar, table.entries_[i].key, keyLen) = keyBytes}
        i == IF same = {} THEN probeEmpty(table, masked(h, table.mask_))
             ELSE CHOOSE s \in same : TRUE
    IN [table EXCEPT !.entries_[i] =
            [key |-> key, keyLen |-> keyLen, hash32 |-> h,
             size |-> size, offset |-> offset]]

\* FastHashMap::insert; fnv1a reads the keyLen bytes key points at
insert(text, ar, table, key, keyLen, size, offset) ==
    LET h == fnv1a(bytesAt(text, ar, key, keyLen))
        i == probeEmpty(table, masked(h, table.mask_))
    IN [table EXCEPT !.entries_[i] =
            [key |-> key, keyLen |-> keyLen, hash32 |-> h,
             size |-> size, offset |-> offset]]

RECURSIVE findFrom(_, _, _, _, _, _, _)
findFrom(text, ar, table, i, keyBytes, keyLen, h32) ==
    LET e == table.entries_[i]
    IN IF e.key = NullPtr THEN NoEntry
       ELSE IF /\ e.hash32 = h32
               /\ e.keyLen = keyLen
               /\ bytesAt(text, ar, e.key, keyLen) = keyBytes
            THEN e
            ELSE findFrom(text, ar, table, masked(i + 1, table.mask_), keyBytes, keyLen, h32)

\* FastHashMap::find; NoEntry is the null pointer it returns
find(text, ar, table, keyBytes, keyLen, hash) ==
    findFrom(text, ar, table, masked(hash, table.mask_), keyBytes, keyLen, hash)

RECURSIVE parseU64From(_, _, _)
parseU64From(text, p, x) ==
    IF IsDigit(charAt(text, p))
    THEN parseU64From(text, p + 1, x * 10 + (charAt(text, p) - 48))
    ELSE [x |-> x, p |-> p]

parseU64(text, p) == parseU64From(text, p, 0)

RECURSIVE skipSpaces(_, _)
skipSpaces(text, p) ==
    IF charAt(text, p) \in {32, Tab} THEN skipSpaces(text, p + 1) ELSE p

RECURSIVE toLineEnd(_, _)
toLineEnd(text, p) ==
    IF charAt(text, p) # 0 /\ charAt(text, p) # Newline THEN toLineEnd(text, p + 1) ELSE p

skipLine(text, p) ==
    LET e == toLineEnd(text, p)
    IN IF charAt(text, e) # 0 THEN e + 1 ELSE e

\* while (*p > ' ') ++p;
RECURSIVE keyEnd(_, _)
keyEnd(text, p) ==
    IF signedChar(charAt(text, p)) > 32 THEN keyEnd(text, p + 1) ELSE p

\* while (p < end && *p > ' ') ++p;
RECURSIVE queryEnd(_, _)
queryEnd(text, p) ==
    IF p < Len(text) /\ signedChar(charAt(text, p)) > 32 THEN queryEnd(text, p + 1) ELSE p

\* the loop that parses the n blobs, from blob i on
RECURSIVE parseBlobs(_, _, _, _, _)
parseBlobs(text, p, i, n, acc) ==
    IF i >= n THEN [blobs |-> acc, p |-> p]
    ELSE LET e == keyEnd(text, p)
             sz == parseU64(text, skipSpaces(text, e))
             off == parseU64(text, skipSpaces(text, sz.p))
         IN parseBlobs(text, skipLine(text, off.p), i + 1, n,
                       Append(acc, [key |-> DataPtr(p), keyLen |-> e - p,
                                    size |-> sz.x, offset |-> off.x]))

\* the loop that parses the q queries and hashes them
RECURSIVE parseQueries(_, _, _, _, _)
parseQueries(text, p, i, q, acc) ==
    IF i >= q THEN acc
    ELSE LET e == queryEnd(text, p)
         IN parseQueries(text, skipLine(text, e), i + 1, q,
                         Append(acc, [key |-> DataPtr(p), keyLen |-> e - p,
                                      hash |-> fnv1a(SubSeq(text, p + 1, e))]))

\* the key copy when n is within one chunk: the worker that claims [0, n)
\* copies the keys in order, every other worker claims nothing
RECURSIVE copyKeys(_, _, _)
copyKeys(bs, ar, i) ==
    IF i > Len(bs) THEN [blobs |-> bs, arena |-> ar]
    ELSE LET a == alloc(ar, bs[i].key, bs[i].keyLen)
         IN copyKeys([bs EXCEPT ![i].key = a.ret], a.arena, i + 1)

RECURSIVE buildFrom(_, _, _, _, _)
buildFrom(text, ar, bs, table, i) ==
    IF i > Len(bs) THEN table
    ELSE buildFrom(text, ar, bs,
                   insert(text, ar, table, bs[i].key, bs[i].keyLen, bs[i].size, bs[i].offset),
                   i + 1)

\* FastOutput::writeU64: the digits, least first, then written backwards
RECURSIVE digitsBackwards(_)
digitsBackwards(x) ==
    IF x = 0 THEN <<>> ELSE <<48 + (x % 10)>> \o digitsBackwards(x \div 10)

writeU64(x) == IF x = 0 THEN <<48>> ELSE Reverse(digitsBackwards(x))

NOTFOUND == <<78, 79, 84, 70, 79, 85, 78, 68, 10>>       \* "NOTFOUND\n"

\* what the query loop writes for the entry find returned
answerLine(e) ==
    IF e # NoEntry
    THEN writeU64(e.size) \o <<32>> \o writeU64(e.offset) \o <<Newline>>
    ELSE NOTFOUND

BUF_SIZE == 262144     \* FastOutput::BUF_SIZE, 256 * 1024

\* FastOutput::flush
flush(o) == [buf_ |-> <<>>, written |-> o.written \o o.buf_]

\* FastOutput::maybeFlush
maybeFlush(o) == IF Len(o.buf_) >= BUF_SIZE - 128 THEN flush(o) ELSE o

(* One run of fast_blob_indexer_ultimate over an input of the documented *)
(* format: N, N records, Q, Q queries.                                   *)

MaxRecords == 3        \* records of an input
MaxQueries == 2        \* queries of an input

KeyI == <<105>>        \* "i": fnv1a("i") and fnv1a("a") agree in their low three bits
KeyCtl == <<97, 1>>    \* "a" followed by the control character SOH

RecordKeys == {KeyA, KeyI, KeyCtl}
QueryKeys == RecordKeys \cup {KeyB}

\* the size and the offset of the i-th record of an input
RecordSizes == <<10, 0, 7, 300>>
RecordOffsets == <<100, 20, 0, 4>>

SeqsUpTo(S, n) == UNION {[1..k -> S] : k \in 0..n}

RECURSIVE recordLines(_, _)
recordLines(keys, i) ==
    IF i > Len(keys) THEN <<>>
    ELSE keys[i] \o <<32>> \o to_string(RecordSizes[i]) \o <<Tab>>
             \o to_string(RecordOffsets[i]) \o <<Newline>> \o recordLines(keys, i + 1)

RECURSIVE queryLines(_, _)
queryLines(asked, i) ==
    IF i > Len(asked) THEN <<>>
    ELSE asked[i] \o <<Newline>> \o queryLines(asked, i + 1)

inputText(keys, asked) ==
    to_string(Len(keys)) \o <<Newline>> \o recordLines(keys, 1)
        \o to_string(Len(asked)) \o <<Newline>> \o queryLines(asked, 1)

\* the blob store is not part of a run of the static indexer
StoreIdle ==
    /\ files = <<>>
    /\ orphans = <<>>
    /\ pid = FirstPid
    /\ thr = [t \in Threads |-> IdleThread]
    /\ op = NoOp
    /\ hist = {}
    /\ pure = FALSE
    /\ indexer = NoIndex
    /\ cache_ = NoCache

NoOutput == [buf_ |-> <<>>, written |-> <<>>]

InitStatic ==
    /\ StoreIdle
    /\ \E keys \in SeqsUpTo(RecordKeys, MaxRecords), asked \in SeqsUpTo(QueryKeys, MaxQueries) :
          /\ program = [name |-> "ultimate", hw |-> 1, keys |-> keys, asked |-> asked]
          /\ input = inputText(keys, asked)
    /\ main = [pc |-> "parse", p |-> 0, n |-> 0, q |-> 0, i |-> 0]
    /\ blobs = <<>>
    /\ arena = <<>>
    /\ idx = 0
    /\ workers = <<>>
    /\ hm = <<>>
    /\ queries = <<>>
    /\ results = <<>>
    /\ out = NoOutput
    /\ ring = <<>>

\* main: N, the arena, the N records
ParseBlobs ==
    /\ main.pc = "parse"
    /\ LET n == parseU64(input, 0)
           parsed == parseBlobs(input, skipLine(input, n.p), 0, n.x, <<>>)
       IN /\ arena' = Arena(n.x * 40 + 4 * 1024 * 1024)
          /\ blobs' = parsed.blobs
          /\ main' = [main EXCEPT !.pc = "copy", !.n = n.x, !.p = parsed.p]
    /\ UNCHANGED <<storeVars, program, input, idx, workers, hm, queries, results, out, ring>>

\* main: the parallel arena copy of an input of at most one chunk of records
CopyKeys ==
    /\ main.pc = "copy"
    /\ main.n <= 8192
    /\ LET copied == copyKeys(blobs, arena, 1)
       IN /\ blobs' = copied.blobs
          /\ arena' = copied.arena
    /\ main' = [main EXCEPT !.pc = "build"]
    /\ UNCHANGED <<storeVars, program, input, idx, workers, hm, queries, results, out, ring>>

\* main: FastHashMap hm(n) and the n inserts
BuildMap ==
    /\ main.pc = "build"
    /\ \A i \in DOMAIN blobs : blobs[i].key # NullPtr
    /\ hm' = buildFrom(input, arena, blobs, FastHashMap(main.n), 1)
    /\ main' = [main EXCEPT !.pc = "queries"]
    /\ UNCHANGED <<storeVars, program, input, blobs, arena, idx, workers, queries, results, out, ring>>

\* main: Q and the Q queries, hashed
ParseQueries ==
    /\ main.pc = "queries"
    /\ LET q == parseU64(input, main.p)
       IN /\ queries' = parseQueries(input, skipLine(input, q.p), 0, q.x, <<>>)
          /\ main' = [main EXCEPT !.pc = "answer", !.q = q.x, !.i = 0]
    /\ UNCHANGED <<storeVars, program, input, blobs, arena, idx, workers, hm, results, out, ring>>

\* main: one turn of the query loop
AnswerQuery ==
    /\ main.pc = "answer"
    /\ main.i < main.q
    /\ LET query == queries[main.i + 1]
           e == find(input, arena, hm,
                     bytesAt(input, arena, query.key, query.keyLen), query.keyLen, query.hash)
       IN out' = maybeFlush([out EXCEPT !.buf_ = @ \o answerLine(e)])
    /\ main' = [main EXCEPT !.i = @ + 1]
    /\ UNCHANGED <<storeVars, program, input, blobs, arena, idx, workers, hm, queries, results, ring>>

\* main: out.flush() and the return
FlushOutput ==
    /\ main.pc = "answer"
    /\ main.i >= main.q
    /\ out' = flush(out)
    /\ main' = [main EXCEPT !.pc = "done"]
    /\ UNCHANGED <<storeVars, program, input, blobs, arena, idx, workers, hm, queries, results, ring>>

NextStatic ==
    \/ ParseBlobs
    \/ CopyKeys
    \/ BuildMap
    \/ ParseQueries
    \/ AnswerQuery
    \/ FlushOutput

SpecStatic == InitStatic /\ [][NextStatic]_vars

(* The parallel key copy of the static indexers, and the hand-over of the *)
(* copied keys to the table. The bytes of the keys play no part in it:    *)
(* the input is given by the lengths of its keys.                         *)

MaxEntries == 3        \* records of an input
LongKey == 5000000     \* the length of a long key

KeyLengths == {1, LongKey}

Programs == {"ultimate", "extreme", "hyper"}

Min(a, b) == IF a < b THEN a ELSE b

\* fast_blob_indexer_ultimate: std::min(8u, std::max(1u, hardware_concurrency()))
nT_ultimate(hw) == Min(8, IF hw > 1 THEN hw ELSE 1)

\* fast_blob_indexer_extreme: 4 when hardware_concurrency() is 0, at most 8
numThreads_extreme(hw) == IF hw = 0 THEN 4 ELSE IF hw > 8 THEN 8 ELSE hw

\* fast_blob_indexer_hyper: std::min(8u, hardware_concurrency())
nT_hyper(hw) == Min(8, hw)

threadCount(prog) ==
    IF prog.name = "ultimate" THEN nT_ultimate(prog.hw)
    ELSE IF prog.name = "extreme" THEN numThreads_extreme(prog.hw)
    ELSE nT_hyper(prog.hw)

\* Arena arena(n * 40 + ...): 1 MiB of headroom in extreme, 4 MiB in the others
arenaSize(prog, n) ==
    IF prog.name = "extreme" THEN n * 40 + 1024 * 1024 ELSE n * 40 + 4 * 1024 * 1024

\* The stride of idx.fetch_add and the length of a chunk: 8192 in ultimate and
\* hyper, 16384 in extreme. The model takes 2, so that an input of a few
\* records is more than one chunk and several workers copy.
chunkSize == 2

\* the threads a run of the model can start
WorkerIds == 1..4

IdleWorker == [pc |-> "claim", s |-> 0, e |-> 0, i |-> 0, claimed |-> <<>>]

\* the pointers to the keys of an input whose keys have the lengths lens
RECURSIVE blobsOf(_, _, _)
blobsOf(lens, i, p) ==
    IF i > Len(lens) THEN <<>>
    ELSE <<[key |-> DataPtr(p), keyLen |-> lens[i], by |-> <<>>]>>
             \o blobsOf(lens, i + 1, p + lens[i] + 1)

InitKeyCopy ==
    /\ StoreIdle
    /\ \E name \in Programs, hw \in HardwareConcurrency, lens \in SeqsUpTo(KeyLengths, MaxEntries) :
          /\ program = [name |-> name, hw |-> hw]
          /\ blobs = blobsOf(lens, 1, 0)
          /\ main = [pc |-> "copy", n |-> Len(lens)]
          /\ arena = Arena(arenaSize(program, Len(lens)))
          /\ workers = [t \in 1..threadCount(program) |-> IdleWorker]
    /\ input = <<>>
    /\ idx = 0
    /\ hm = <<>>
    /\ queries = <<>>
    /\ results = <<>>
    /\ out = NoOutput
    /\ ring = <<>>

keyCopyFrame == <<storeVars, program, input, hm, queries, results, out, ring>>

\* a worker: s = idx.fetch_add(chunk); if (s >= n) break; e = min(s + chunk, n)
ClaimChunk(t) ==
    /\ main.pc = "copy"
    /\ t \in DOMAIN workers
    /\ workers[t].pc = "claim"
    /\ idx' = idx + chunkSize
    /\ workers' = [workers EXCEPT ![t] =
          IF idx >= main.n THEN [@ EXCEPT !.pc = "done"]
          ELSE [@ EXCEPT !.pc = "copy", !.s = idx, !.i = idx,
                         !.e = Min(idx + chunkSize, main.n),
                         !.claimed = Append(@, idx)]]
    /\ UNCHANGED <<main, blobs, arena, keyCopyFrame>>

\* a worker: blobs[i].key = arena.alloc(blobs[i].key, blobs[i].keyLen); by
\* keeps which workers wrote the entry
CopyKey(t) ==
    /\ main.pc = "copy"
    /\ t \in DOMAIN workers
    /\ workers[t].pc = "copy"
    /\ LET i == workers[t].i
           a == alloc(arena, blobs[i + 1].key, blobs[i + 1].keyLen)
       IN /\ arena' = a.arena
          /\ blobs' = [blobs EXCEPT ![i + 1].key = a.ret, ![i + 1].by = Append(@, t)]
          /\ workers' = [workers EXCEPT ![t] =
                IF i + 1 >= @.e THEN [@ EXCEPT !.pc = "claim", !.i = i + 1]
                ELSE [@ EXCEPT !.i = i + 1]]
    /\ UNCHANGED <<main, idx, keyCopyFrame>>

\* main: every thread joined
JoinWorkers ==
    /\ main.pc = "copy"
    /\ \A t \in DOMAIN workers : workers[t].pc = "done"
    /\ main' = [main EXCEPT !.pc = "build"]
    /\ UNCHANGED <<blobs, arena, idx, workers, keyCopyFrame>>

\* main: FastHashMap hm(n) and the n calls hm.insert(blobs[i].key, ...), of
\* which only the pointers passed are followed here. insert reads keyLen bytes
\* at key: with a null key the behaviour is undefined, the run is killed there
\* or goes on to the queries.
InsertKeys ==
    /\ main.pc = "build"
    /\ \/ main' = [main EXCEPT !.pc = "queries"]
       \/ /\ \E i \in DOMAIN blobs : blobs[i].key = NullPtr
          /\ main' = [main EXCEPT !.pc = "killed"]
    /\ UNCHANGED <<blobs, arena, idx, workers, keyCopyFrame>>

NextKeyCopy ==
    \/ \E t \in WorkerIds : ClaimChunk(t)
    \/ \E t \in WorkerIds : CopyKey(t)
    \/ JoinWorkers
    \/ InsertKeys

SpecKeyCopy == InitKeyCopy /\ [][NextKeyCopy]_vars

(* The parallel query strategy: fast_blob_indexer_hyper from the point    *)
(* where its table is built and its queries are parsed. Its parsing, its  *)
(* Arena and its HashMap are the loops of fast_blob_indexer_ultimate      *)
(* under other names (pu64, skip, line, put, get).                        *)

MaxAsked == 3          \* queries of an input of the parallel strategy

HyperRecordKeys == {KeyA, KeyI}
HyperQueryKeys == {KeyA, KeyB}

\* The stride of qidx.fetch_add, 1024 in the source; 2 in the model, so that a
\* few queries are more than one chunk.
queryChunk == 2

\* QResult, value-initialised by std::vector<QResult> results(q); by keeps
\* which workers stored the result
NoResult == [sz |-> 0, off |-> 0, found |-> FALSE, by |-> <<>>]

\* main of hyper up to line 172: the blobs parsed, their keys copied by the
\* nT workers (by none when nT is 0), the table built, the queries parsed
hyperReady(text, nT) ==
    LET n == parseU64(text, 0)
        parsed == parseBlobs(text, skipLine(text, n.p), 0, n.x, <<>>)
        fresh == Arena(n.x * 40 + 4 * 1024 * 1024)
        copied == IF nT = 0 THEN [blobs |-> parsed.blobs, arena |-> fresh]
                  ELSE copyKeys(parsed.blobs, fresh, 1)
        q == parseU64(text, parsed.p)
    IN [n |-> n.x, q |-> q.x,
        blobs |-> copied.blobs,
        arena |-> copied.arena,
        hm |-> buildFrom(text, copied.arena, copied.blobs, FastHashMap(n.x), 1),
        queries |-> parseQueries(text, skipLine(text, q.p), 0, q.x, <<>>)]

InitHyper ==
    /\ StoreIdle
    /\ \E hw \in HardwareConcurrency,
          keys \in SeqsUpTo(HyperRecordKeys, MaxRecords),
          asked \in SeqsUpTo(HyperQueryKeys, MaxAsked) :
          LET ready == hyperReady(inputText(keys, asked), nT_hyper(hw))
          IN /\ program = [name |-> "hyper", hw |-> hw, keys |-> keys, asked |-> asked]
             /\ input = inputText(keys, asked)
             /\ main = [pc |-> "query", n |-> ready.n, q |-> ready.q]
             /\ blobs = ready.blobs
             /\ arena = ready.arena
             /\ hm = ready.hm
             /\ queries = ready.queries
             /\ results = [i \in 1..ready.q |-> NoResult]
             /\ workers = [t \in 1..nT_hyper(hw) |-> IdleWorker]
    /\ idx = 0
    /\ out = NoOutput
    /\ ring = <<>>

hyperFrame == <<storeVars, program, input, blobs, arena, hm, queries, ring>>

\* a worker: s = qidx.fetch_add(1024); if (s >= q) break; e = min(s + 1024, q)
ClaimQueries(t) ==
    /\ main.pc = "query"
    /\ t \in DOMAIN workers
    /\ workers[t].pc = "claim"
    /\ idx' = idx + queryChunk
    /\ workers' = [workers EXCEPT ![t] =
          IF idx >= main.q THEN [@ EXCEPT !.pc = "done"]
          ELSE [@ EXCEPT !.pc = "copy", !.s = idx, !.i = idx,
                         !.e = Min(idx + queryChunk, main.q),
                         !.claimed = Append(@, idx)]]
    /\ UNCHANGED <<main, results, out, hyperFrame>>

\* a worker: r = hm.get(qs[i]...); results[i] = {r->sz, r->off, true} or {0, 0, false}
StoreResult(t) ==
    /\ main.pc = "query"
    /\ t \in DOMAIN workers
    /\ workers[t].pc = "copy"
    /\ LET i == workers[t].i
           query == queries[i + 1]
           r == find(input, arena, hm,
                     bytesAt(input, arena, query.key, query.keyLen), query.keyLen, query.hash)
       IN /\ results' = [results EXCEPT ![i + 1] =
                IF r # NoEntry
                THEN [sz |-> r.size, off |-> r.offset, found |-> TRUE, by |-> Append(@.by, t)]
                ELSE [sz |-> 0, off |-> 0, found |-> FALSE, by |-> Append(@.by, t)]]
          /\ workers' = [workers EXCEPT ![t] =
                IF i + 1 >= @.e THEN [@ EXCEPT !.pc = "claim", !.i = i + 1]
                ELSE [@ EXCEPT !.i = i + 1]]
    /\ UNCHANGED <<main, idx, out, hyperFrame>>

\* the line main writes for results[i]
RECURSIVE resultLines(_, _)
resultLines(rs, i) ==
    IF i > Len(rs) THEN <<>>
    ELSE (IF rs[i].found
          THEN writeU64(rs[i].sz) \o <<32>> \o writeU64(rs[i].off) \o <<Newline>>
          ELSE NOTFOUND)
         \o resultLines(rs, i + 1)

\* main: every thread joined, then the output loop and flush
OutputResults ==
    /\ main.pc = "query"
    /\ \A t \in DOMAIN workers : workers[t].pc = "done"
    /\ out' = [buf_ |-> <<>>, written |-> resultLines(results, 1)]
    /\ main' = [main EXCEPT !.pc = "done"]
    /\ UNCHANGED <<idx, workers, results, hyperFrame>>

NextHyper ==
    \/ \E t \in WorkerIds : ClaimQueries(t)
    \/ \E t \in WorkerIds : StoreResult(t)
    \/ OutputResults

SpecHyper == InitHyper /\ [][NextHyper]_vars

(* The asynchronous writer: IOUringWriter of fast_blob_indexer_uring over  *)
(* a ring that takes the write requests and executes them when and in the  *)
(* order it chooses (no request is linked to another). A request names the *)
(* buffer, not its bytes: the bytes are read when the write is executed.   *)

MaxWrites == 5         \* calls of write in a run

\* Buffer::CAPACITY, 64 * 1024 in the source; 2 in the model, so that a few
\* bytes fill a buffer.
CAPACITY == 2

\* IOUringWriter::QUEUE_DEPTH, 32 in the source; 3 in the model, so that the
\* wait for a completion in submitBuffer is met.
QUEUE_DEPTH == 3

\* a Buffer from the pool: size 0
FreshBuffer == [data |-> [i \in 1..CAPACITY |-> 0], size |-> 0]

NoRing == [inflight |-> {}, cq |-> 0, submitted |-> 0, lagged |-> FALSE]

\* IOUringWriter(fd): fallback is what io_uring_queue_init makes of it; passed
\* keeps the bytes handed to write, fd those that reached the descriptor
IOUringWriter(fallback) ==
    [fallback_ |-> fallback,
     buffers_ |-> <<FreshBuffer, FreshBuffer>>,
     currentBuf_ |-> 0,
     pending_ |-> 0,
     pc |-> "open",
     passed |-> <<>>,
     fd |-> <<>>]

InitWriter ==
    /\ StoreIdle
    /\ program = [name |-> "uring", hw |-> 1]
    /\ input = <<>>
    /\ main = [pc |-> "answer"]
    /\ blobs = <<>>
    /\ arena = <<>>
    /\ idx = 0
    /\ workers = <<>>
    /\ hm = <<>>
    /\ queries = <<>>
    /\ results = <<>>
    /\ \E fallback \in BOOLEAN : out = IOUringWriter(fallback)
    /\ ring = NoRing

writerFrame == <<storeVars, program, input, main, blobs, arena, idx, workers, hm, queries, results>>

\* the completions submitBuffer waits for before it takes an sqe
awaited(o) ==
    IF o.pending_ >= QUEUE_DEPTH - 1 THEN o.pending_ - (QUEUE_DEPTH - 2) ELSE 0

\* submitBuffer without its loop of drainOne
submitBuffer_noWait(o, rg) ==
    LET cur == o.currentBuf_ + 1
        other == (1 - o.currentBuf_) + 1
    IN IF o.buffers_[cur].size = 0 THEN [out |-> o, ring |-> rg]
       ELSE [out |-> [o EXCEPT !.pending_ = @ + 1,
                               !.currentBuf_ = 1 - @,
                               !.buffers_[other].size = 0],
             ring |-> [rg EXCEPT !.submitted = @ + 1,
                                 !.inflight = @ \cup {[id |-> rg.submitted + 1,
                                                       buf |-> cur,
                                                       len |-> o.buffers_[cur].size]}]]

\* IOUringWriter::submitBuffer, the waits of its drainOne loop over
submitBuffer(o, rg) ==
    LET cur == o.currentBuf_ + 1
        other == (1 - o.currentBuf_) + 1
        k == awaited(o)
    IN IF o.buffers_[cur].size = 0 THEN [out |-> o, ring |-> rg]
       ELSE [out |-> [o EXCEPT !.pending_ = @ - k + 1,
                               !.currentBuf_ = 1 - @,
                               !.buffers_[other].size = 0],
             ring |-> [rg EXCEPT !.cq = @ - k,
                                 !.submitted = @ + 1,
                                 !.inflight = @ \cup {[id |-> rg.submitted + 1,
                                                       buf |-> cur,
                                                       len |-> o.buffers_[cur].size]}]]

\* std::memcpy(buf->data + buf->size, data, len); buf->size += len;
append(buf, bytes) ==
    [data |-> [i \in 1..CAPACITY |->
                  IF i > buf.size /\ i <= buf.size + Len(bytes)
                  THEN bytes[i - buf.size] ELSE buf.data[i]],
     size |-> buf.size + Len(bytes)]

\* IOUringWriter::write of len bytes, each the number of the call
WriterWrite(len) ==
    /\ out.pc = "open"
    /\ Cardinality(Range(out.passed)) < MaxWrites
    /\ LET bytes == [i \in 1..len |-> Cardinality(Range(out.passed)) + 1]
           full == out.buffers_[out.currentBuf_ + 1].size + len > CAPACITY
           sub == IF full THEN submitBuffer(out, ring) ELSE [out |-> out, ring |-> ring]
       IN IF out.fallback_
          THEN /\ out' = [out EXCEPT !.passed = @ \o bytes, !.fd = @ \o bytes]
               /\ ring' = ring
          ELSE /\ full => ring.cq >= awaited(out)
               /\ out' = [sub.out EXCEPT !.passed = @ \o bytes,
                                         !.buffers_[sub.out.currentBuf_ + 1] = append(@, bytes)]
               /\ ring' = [sub.ring EXCEPT !.lagged = @ \/ ring.inflight # {}]
    /\ UNCHANGED writerFrame

\* the ring executes one of the requests it holds: the len bytes now in the
\* buffer go to the descriptor, and the completion is posted
RingExecute(r) ==
    /\ r \in ring.inflight
    /\ out' = [out EXCEPT !.fd = @ \o SubSeq(out.buffers_[r.buf].data, 1, r.len)]
    /\ ring' = [ring EXCEPT !.inflight = @ \ {r}, !.cq = @ + 1]
    /\ UNCHANGED writerFrame

\* ~IOUringWriter: flush(). In fallback the constructor returned before
\* buffers_ was set, and the destructor reads both pointers.
WriterFlush ==
    /\ out.pc = "open"
    /\ IF out.fallback_
       THEN /\ \E pc \in {"closed", "crashed"} : out' = [out EXCEPT !.pc = pc]
            /\ ring' = ring
       ELSE /\ ring.cq >= awaited(out)
            /\ LET sub == submitBuffer(out, ring)
               IN /\ out' = [sub.out EXCEPT !.pc = "draining"]
                  /\ ring' = [sub.ring EXCEPT !.lagged = @ \/ ring.inflight # {}]
    /\ UNCHANGED writerFrame

\* ~IOUringWriter: drain(), once every completion it waits for is posted
WriterDrain ==
    /\ out.pc = "draining"
    /\ ring.cq >= out.pending_
    /\ out' = [out EXCEPT !.pending_ = 0, !.pc = "closed"]
    /\ ring' = [ring EXCEPT !.cq = @ - out.pending_]
    /\ UNCHANGED writerFrame

NextWriter ==
    \/ \E len \in 1..2 : WriterWrite(len)
    \/ \E r \in [id : 1..(MaxWrites + 1), buf : 1..2, len : 1..CAPACITY] : RingExecute(r)
    \/ WriterFlush
    \/ WriterDrain

SpecWriter == InitWriter /\ [][NextWriter]_vars

\* The writer's run to its end: main leaves the query loop and the writer is
\* destroyed (WriterFlush, WriterDrain), and the ring executes every request
\* it was given.
WriterRequests == [id : 1..(MaxWrites + 1), buf : 1..2, len : 1..CAPACITY]

SpecWriterLive ==
    /\ InitWriter
    /\ [][NextWriter]_vars
    /\ WF_vars(WriterFlush)
    /\ WF_vars(WriterDrain)
    /\ WF_vars(\E r \in WriterRequests : RingExecute(r))

----------------------------------------------------------------------------
(* SpecBatch: one call of batchPut or batchGet (blob_storage_io.cpp) by one  *)
(* thread on a BlobStorage that earlier puts have filled.                    *)

MaxBatch == 3          \* items in one batch call

\* BlobStorage::put run without interruption; ok = FALSE is the throw of
\* writeFileAtomic. The retention loop works on the sorted vector, so every
\* order listVersions may return leaves the same files.
put(fs, bucket, key, data, versionId, p) ==
    LET w == writeFileAtomic(fs, pathForKey(bucket, key, versionId), data, p)
    IN IF ~w.ok THEN w
       ELSE [ok |-> TRUE,
             fs |-> CHOOSE r \in {reapFrom(w.fs, bucket, key, sortDescending(versions),
                                           KeepVersions) :
                                     versions \in listVersions(w.fs, bucket, key)} : TRUE]

\* BlobStorage::get run without interruption; ok = FALSE is the throw
get(fs, bucket, key, versionId) ==
    CHOOSE r \in {getWith(fs, bucket, key, versionId, versions) :
                     versions \in listVersions(fs, bucket, key)} : TRUE

\* struct BatchResult; error is ex.what()
BatchResult(key, success) ==
    [key |-> key, success |-> success,
     error |-> IF success THEN "" ELSE "Failed to rename temp file"]

\* the loop of batchPut leaving at the first put that throws
RECURSIVE batchPutFrom_stopsAtThrow(_, _, _, _, _)
batchPutFrom_stopsAtThrow(fs, items, i, acc, p) ==
    IF i > Len(items) THEN [fs |-> fs, results |-> acc]
    ELSE LET r == put(fs, DefaultBucket, items[i].key, items[i].data, NoVersion, p)
         IN IF ~r.ok THEN [fs |-> r.fs, results |-> acc]
            ELSE batchPutFrom_stopsAtThrow(r.fs, items, i + 1,
                     Append(acc, BatchResult(items[i].key, TRUE)), p)

batchPut_stopsAtThrow(fs, items, p) == batchPutFrom_stopsAtThrow(fs, items, 1, <<>>, p)

\* the loop of batchPut from item i on (1-based), acc the results pushed so far
RECURSIVE batchPutFrom(_, _, _, _, _)
batchPutFrom(fs, items, i, acc, p) ==
    IF i > Len(items) THEN [fs |-> fs, results |-> acc]
    ELSE LET r == put(fs, DefaultBucket, items[i].key, items[i].data, NoVersion, p)
         IN batchPutFrom(r.fs, items, i + 1,
                         Append(acc, BatchResult(items[i].key, r.ok)), p)

\* batchPut(store, items)
batchPut(fs, items, p) == batchPutFrom(fs, items, 1, <<>>, p)

\* the loop of batchGet: a get that throws leaves an empty vector
RECURSIVE batchGetFrom(_, _, _, _)
batchGetFrom(fs, keys, i, acc) ==
    IF i > Len(keys) THEN acc
    ELSE LET r == get(fs, DefaultBucket, keys[i], NoVersion)
         IN batchGetFrom(fs, keys, i + 1,
                Append(acc, [key |-> keys[i],
                                 bytes |-> IF r.ok THEN r.bytes ELSE <<>>]))

\* batchGet(store, keys)
batchGet(fs, keys) == batchGetFrom(fs, keys, 1, <<>>)

BatchKeys == {KeyA, KeyB, <<>>}        \* the empty key: its put throws
BatchPayloads == {<<>>, <<1>>}
BatchItems == [key : BatchKeys, data : BatchPayloads]

\* what a batch call was given, what it returned, and the files before it
BatchDone(name, items, rs, before) ==
    [name |-> name, items |-> items, results |-> rs, before |-> before]

\* the stores earlier puts of these keys leave
BatchStores ==
    {batchPut(<<>>, items, FirstPid).fs : items \in SeqsUpTo(BatchItems, 2)}

\* a BlobStorage over an initialised root that holds some of the keys
InitBatch ==
    /\ files \in BatchStores
    /\ orphans = <<>>
    /\ pid = FirstPid
    /\ thr = [t \in Threads |-> IdleThread]
    /\ op = BatchDone("init", <<>>, <<>>, <<>>)
    /\ hist = {}
    /\ pure = FALSE
    /\ indexer = NoIndex
    /\ cache_ = NoCache
    /\ StaticIdle

batchFrame == <<orphans, pid, thr, hist, pure, indexer, cache_, staticVars>>

\* one call of batchPut on the store
BatchPut(items) ==
    /\ op.name = "init"
    /\ LET r == batchPut(files, items, pid)
       IN /\ files' = r.fs
          /\ op' = BatchDone("batchPut", items, r.results, files)
    /\ UNCHANGED batchFrame

\* one call of batchGet on the store
BatchGet(keys) ==
    /\ op.name = "init"
    /\ op' = BatchDone("batchGet", keys, batchGet(files, keys), files)
    /\ UNCHANGED <<files, batchFrame>>

NextBatch ==
    \/ \E items \in SeqsUpTo(BatchItems, MaxBatch) : BatchPut(items)
    \/ \E keys \in SeqsUpTo(BatchKeys, MaxBatch) : BatchGet(keys)

SpecBatch == InitBatch /\ [][NextBatch]_vars

----------------------------------------------------------------------------
(* The baseline static indexer (fast_blob_indexer.cpp): the same input read  *)
(* with getchar into a std::unordered_map.  A reader at the end of the input *)
(* gets EOF, which is <= ' ', so a skip loop that meets it never ends: hung. *)

EOF == 0 - 1

\* fastio::readChar: the int getchar returns for the byte at position p
readChar(text, p) == IF p < Len(text) THEN text[p + 1] ELSE EOF

\* while (c <= ' ') c = readChar();  the position of the first char above ' '
RECURSIVE skipBlanks(_, _)
skipBlanks(text, p) ==
    IF p >= Len(text) THEN [p |-> p, hung |-> TRUE]
    ELSE IF readChar(text, p) <= 32 THEN skipBlanks(text, p + 1)
    ELSE [p |-> p, hung |-> FALSE]

\* the end of the token that starts at p: the first char not above ' '
RECURSIVE tokenEnd(_, _)
tokenEnd(text, p) ==
    IF readChar(text, p) > 32 THEN tokenEnd(text, p + 1) ELSE p

\* x = x * 10 + (c - '0') over the chars of a token
RECURSIVE decimal(_, _)
decimal(tok, x) ==
    IF tok = <<>> THEN x ELSE decimal(Tail(tok), x * 10 + (Head(tok) - 48))

\* fastio::readString; p is the position after the char that ended the token
readString(text, p) ==
    LET s == skipBlanks(text, p)
        e == tokenEnd(text, s.p)
    IN [buf |-> IF s.hung THEN <<>> ELSE SubSeq(text, s.p + 1, e),
        p |-> IF e < Len(text) THEN e + 1 ELSE e,
        hung |-> s.hung]

\* fastio::readU64
readU64(text, p) ==
    LET tok == readString(text, p)
    IN [x |-> decimal(tok.buf, 0), p |-> tok.p, hung |-> tok.hung]

\* index[keyBuf] = {sz, off}
indexSet(index, key, info) == MapSet(index, key, info)

\* main: the loop that reads the n blobs, from blob i on
RECURSIVE readBlobs(_, _, _, _, _)
readBlobs(text, p, i, n, index) ==
    IF i >= n THEN [index |-> index, p |-> p, hung |-> FALSE]
    ELSE LET key == readString(text, p)
             sz == readU64(text, key.p)
             off == readU64(text, sz.p)
         IN IF key.hung \/ sz.hung \/ off.hung
            THEN [index |-> index, p |-> off.p, hung |-> TRUE]
            ELSE readBlobs(text, off.p, i + 1, n,
                           indexSet(index, key.buf, [size |-> sz.x, offset |-> off.x]))

\* main: the loop that reads and answers the q queries, from query i on
RECURSIVE answerQueries(_, _, _, _, _, _)
answerQueries(text, p, i, q, index, written) ==
    IF i >= q THEN [written |-> written, hung |-> FALSE]
    ELSE LET key == readString(text, p)
         IN IF key.hung THEN [written |-> written, hung |-> TRUE]
            ELSE answerQueries(text, key.p, i + 1, q, index,
                     written \o (IF key.buf \in DOMAIN index
                                 THEN writeU64(index[key.buf].size) \o <<32>>
                                          \o writeU64(index[key.buf].offset) \o <<Newline>>
                                 ELSE NOTFOUND))

\* main of the baseline on the whole input: what it writes, and whether it
\* is left waiting in a read
baseline(text) ==
    LET n == readU64(text, 0)
        read == readBlobs(text, n.p, 0, n.x, <<>>)
        q == readU64(text, read.p)
    IN IF n.hung \/ read.hung \/ q.hung THEN [written |-> <<>>, hung |-> TRUE]
       ELSE answerQueries(text, q.p, 0, q.x, read.index, <<>>)

\* the baseline program run on the input of the run
RunBaseline ==
    /\ results = <<>>
    /\ results' = <<baseline(input)>>
    /\ UNCHANGED <<storeVars, program, input, main, blobs, arena, idx, workers, hm,
                   queries, out, ring>>

\* fast_blob_indexer_ultimate and the baseline, each run on the same input
NextVariants ==
    \/ ParseBlobs
    \/ CopyKeys
    \/ BuildMap
    \/ ParseQueries
    \/ AnswerQuery
    \/ FlushOutput
    \/ RunBaseline

SpecVariants == InitStatic /\ [][NextVariants]_vars

----------------------------------------------------------------------------
(* SpecBuckets: two IndexedBlobStorage instances over one root, one for each *)
(* bucket, used by one thread.  indexer[b] is the FastBlobIndexer of the     *)
(* instance for bucket b.                                                    *)

InstanceKeys == {KeyA, KeyB}
InstancePayloads == {<<1>>}

\* both instances constructed, neither initialised, on an empty root
InitBuckets ==
    /\ files = <<>>
    /\ orphans = <<>>
    /\ pid = FirstPid
    /\ thr = [t \in Threads |-> IdleThread]
    /\ op = NoOp
    /\ hist = {}
    /\ pure = FALSE
    /\ indexer = [b \in Buckets |-> NoIndex]
    /\ cache_ = NoCache
    /\ StaticIdle

\* IndexedBlobStorage::init of the instance for bucket b; ok is FALSE when
\* loadFromFile throws, flag tells that the index came from the file
InstanceInit(b, hw, now) ==
    /\ LET load == loadFromFile(indexer[b], files)
       IN /\ IF load.ret \/ load.threw
             THEN indexer' = [indexer EXCEPT ![b] = load.ix]
             ELSE \E ix \in rebuild(files, b, hw, now) :
                     indexer' = [indexer EXCEPT ![b] = ix]
          /\ op' = [Done("instanceInit", b, <<>>, <<>>, <<>>, ~load.threw) EXCEPT !.flag = load.ret]
    /\ UNCHANGED <<files, hist, pure, ixFrame>>

\* IndexedBlobStorage::put of the instance for bucket b
InstancePut(b, key, data, now) ==
    /\ Put(b, key, data, NoVersion)
    /\ indexer' = IF op'.ok
                  THEN [indexer EXCEPT ![b] = onPut(@, key, Len(data), now)]
                  ELSE indexer
    /\ UNCHANGED <<cache_, staticVars>>

\* IndexedBlobStorage::saveIndex of the instance for bucket b
InstanceSaveIndex(b) ==
    /\ \E order \in Orders(DOMAIN indexer[b].hashIndex_) :
           files' = saveToFile(indexer[b], files, order)
    /\ op' = Done("saveIndex", b, <<>>, <<>>, <<>>, TRUE)
    /\ UNCHANGED <<indexer, hist, pure, ixFrame>>

NextBuckets ==
    \/ \E b \in Buckets, hw \in {1, 2}, now \in Times : InstanceInit(b, hw, now)
    \/ \E b \in Buckets, key \in InstanceKeys, data \in InstancePayloads, now \in Times :
          InstancePut(b, key, data, now)
    \/ \E b \in Buckets : InstanceSaveIndex(b)

SpecBuckets == InitBuckets /\ [][NextBuckets]_vars

-----------------------------------------------------------------------------
(* The open-addressing table alone: a table made for N entries takes at most
   N insertions, as main's loop over blobs does, and any number of lookups.
   The two probe loops are walked slot by slot: a loop that has examined every
   slot of a table nobody writes and has not ended never ends. *)

MaxTable == 3          \* entries the table is made for

KeyQ == <<113>>        \* "q": fnv1a("q") agrees with fnv1a("a") in its low three bits

ProbeKeys == <<KeyA, KeyI, KeyQ, KeyB>>

\* the mapped input the keys of ProbeKeys point into, one byte each
ProbeText == KeyA \o KeyI \o KeyQ \o KeyB

\* insert: while (entries_[idx].key != nullptr) idx = (idx + 1) & mask_;
RECURSIVE insertProbe(_, _, _)
insertProbe(table, i, steps) ==
    IF steps = table.capacity_
    THEN [idx |-> i, steps |-> steps, spins |-> TRUE]
    ELSE IF table.entries_[i].key # NullPtr
         THEN insertProbe(table, masked(i + 1, table.mask_), steps + 1)
         ELSE [idx |-> i, steps |-> steps + 1, spins |-> FALSE]

\* find: while (entries_[idx].key != nullptr) { if (match) return &entries_[idx];
\*                                             idx = (idx + 1) & mask_; }
RECURSIVE findProbe(_, _, _, _, _, _, _, _)
findProbe(text, ar, table, i, keyBytes, keyLen, h32, steps) ==
    LET e == table.entries_[i]
    IN IF steps = table.capacity_
       THEN [found |-> FALSE, steps |-> steps, spins |-> TRUE]
       ELSE IF e.key = NullPtr
            THEN [found |-> FALSE, steps |-> steps + 1, spins |-> FALSE]
            ELSE IF /\ e.hash32 = h32
                    /\ e.keyLen = keyLen
                    /\ bytesAt(text, ar, e.key, keyLen) = keyBytes
                 THEN [found |-> TRUE, steps |-> steps + 1, spins |-> FALSE]
                 ELSE findProbe(text, ar, table, masked(i + 1, table.mask_),
                                keyBytes, keyLen, h32, steps + 1)

ProbeCall(name, n, r) ==
    [pc |-> "table", n |-> n, call |-> name,
     steps |-> r.steps, spins |-> r.spins, found |-> r.found]

InitProbe ==
    /\ StoreIdle
    /\ \E n \in 0..MaxTable :
          /\ main = ProbeCall("new", n, [steps |-> 0, spins |-> FALSE, found |-> FALSE])
          /\ hm = FastHashMap(n)
    /\ program = [name |-> "ultimate", hw |-> 1]
    /\ input = ProbeText
    /\ blobs = <<>>
    /\ arena = Arena(0)
    /\ idx = 0
    /\ workers = <<>>
    /\ queries = <<>>
    /\ results = <<>>
    /\ out = NoOutput
    /\ ring = <<>>

probeFrame == <<storeVars, program, input, blobs, arena, workers, queries, results, out, ring>>

\* hm.insert(blobs[i].key, blobs[i].keyLen, blobs[i].size, blobs[i].offset):
\* idx counts the insertions made, never more than the table was made for
TableInsert(k) ==
    /\ ~main.spins
    /\ idx < main.n
    /\ LET key == DataPtr(k - 1)
           keyLen == Len(ProbeKeys[k])
           h == fnv1a(bytesAt(input, arena, key, keyLen))
           r == insertProbe(hm, masked(h, hm.mask_), 0)
       IN /\ main' = ProbeCall("insert", main.n,
                             [steps |-> r.steps, spins |-> r.spins, found |-> FALSE])
          /\ hm' = IF r.spins THEN hm
                   ELSE insert(input, arena, hm, key, keyLen, idx, idx)
          /\ idx' = IF r.spins THEN idx ELSE idx + 1
    /\ UNCHANGED probeFrame

\* hm.find(q.data, q.len, fnv1a(q.data, q.len))
TableFind(k) ==
    /\ ~main.spins
    /\ LET keyBytes == ProbeKeys[k]
           h == fnv1a(keyBytes)
           r == findProbe(input, arena, hm, masked(h, hm.mask_), keyBytes, Len(keyBytes), h, 0)
       IN main' = ProbeCall("find", main.n, r)
    /\ UNCHANGED <<hm, idx>>
    /\ UNCHANGED probeFrame

NextProbe ==
    \E k \in DOMAIN ProbeKeys : TableInsert(k) \/ TableFind(k)

SpecProbe == InitProbe /\ [][NextProbe]_vars

----------------------------------------------------------------------------
(* What the claims speak of, stated apart from the handlers' own loops *)

\* the version ids listVersions reports for a key, as a set
VersionSet(fs, b, k) == UNION {Range(versions) : versions \in listVersions(fs, b, k)}

\* the greatest element of a non-empty set of version ids
LexMax(S) == CHOOSE v \in S : \A w \in S : ~StrLess(v, w)

\* the n greatest elements of a set of version ids
Greatest(S, n) == {v \in S : Cardinality({w \in S : StrLess(v, w)}) < n}

\* the answers get, sizeOf and exists give in a file map
GetAnswers(fs, b, k, v) ==
    {getWith(fs, b, k, v, versions) : versions \in listVersions(fs, b, k)}

SizeAnswers(fs, b, k, v) ==
    {sizeOfWith(fs, b, k, v, versions) : versions \in listVersions(fs, b, k)}

ExistsAnswers(fs, b, k) == {versions # <<>> : versions \in listVersions(fs, b, k)}

\* the bytes stored for a version id that listVersions reports
BlobOf(fs, b, k, v) == fs[pathForKey(b, k, v)]

PutIds(b, k) == {v \in RetVersions : <<b, k, v>> \in hist}

----------------------------------------------------------------------------
(* Claims *)

\* C1: once put(b, k, bytes) with the empty version id has returned, get(b, k)
\* returns bytes, sizeOf(b, k) is the length of bytes and exists(b, k) is true,
\* whatever versions of k the store already held.
C1_PutThenGet ==
    (op.name = "put" /\ op.ok /\ op.v = NoVersion) =>
        /\ GetAnswers(files, op.b, op.k, NoVersion) = {[ok |-> TRUE, bytes |-> op.data]}
        /\ SizeAnswers(files, op.b, op.k, NoVersion) = {[ok |-> TRUE, num |-> Len(op.data)]}
        /\ ExistsAnswers(files, op.b, op.k) = {TRUE}

\* C2: whenever a put on a key has returned (a blob of the key is in place)
\* and no operation is in flight, listVersions of that key has at most 3
\* entries.
C2_Retention ==
    (AllIdle /\ \E v \in CrashVersions : fileExists(files, pathForKey(BucketA, KeyA, v))) =>
        \A versions \in listVersions(files, BucketA, KeyA) : Len(versions) <= 3

\* The same bound holds under SpecConcPut, where no put is killed: at rest
\* after two threads put, at most 3 entries are left.
RetentionAtRestOfThreads ==
    (AllIdle /\ \E t \in Threads : thr[t].call = "put") =>
        \A versions \in listVersions(files, BucketA, KeyA) : Len(versions) <= 3

\* C3: after puts of 4 or more distinct version ids to one key, in any order,
\* listVersions has exactly 3 entries: the 3 lexicographically greatest ids put.
C3_KeepsGreatest ==
    (pure /\ Cardinality(PutIds(BucketA, KeyA)) >= 4) =>
        \A versions \in listVersions(files, BucketA, KeyA) :
            /\ Len(versions) = 3
            /\ Range(versions) = Greatest(PutIds(BucketA, KeyA), 3)

C3_Witness ==
    /\ pure /\ PutIds(BucketA, KeyA) = RetVersions
    /\ op.name = "put" /\ op.v = <<49, 48>>
    /\ VersionSet(files, BucketA, KeyA) = {<<49, 48>>, <<50>>, <<57>>}

\* C4: get and sizeOf with the empty version id answer from the blob whose id
\* is the lexicographic maximum of listVersions; with no version listed both
\* fail; neither changes the files.
C4_State ==
    LET S == VersionSet(files, op.b, op.k)
    IN /\ (op.name = "get" /\ op.v = NoVersion) =>
             IF S = {} THEN ~op.ok
             ELSE op.ok /\ op.bytes = BlobOf(files, op.b, op.k, LexMax(S))
       /\ (op.name = "sizeOf" /\ op.v = NoVersion) =>
             IF S = {} THEN ~op.ok
             ELSE op.ok /\ op.num = Len(BlobOf(files, op.b, op.k, LexMax(S)))

C5_AtomicVisibility ==
    /\ (op.name = "get" /\ op.ok) => op.bytes \in ConcPayloads
    /\ op.name = "listVersions" =>
          \A j \in 1..Len(op.names) : op.names[j] \in ConcVersions

\* C6: a put killed before its rename leaves get(b, k) with the empty version
\* id returning the bytes it returned before that put started.
C6_KilledPutKeepsGet ==
    [][op'.name = "putKilled" =>
          \A r \in GetAnswers(files, op'.b, op'.k, NoVersion) :
              r.ok => GetAnswers(files', op'.b, op'.k, NoVersion) = {r}]_vars

\* C7: once two threads have each run put on the same (b, k, v) and both are
\* done, the stored blob is one of the two payloads in full.
C7_LastWriterWins ==
    \A t, u \in Threads :
        (/\ t # u
         /\ thr[t].pc = "idle" /\ thr[t].call = "put"
         /\ thr[u].pc = "idle" /\ thr[u].call = "put"
         /\ thr[t].v = thr[u].v)
        => /\ fileExists(files, thr[t].path)
           /\ files[thr[t].path] \in {thr[t].data, thr[u].data}

\* C8: after remove(b, k) with the empty version id, exists(b, k) is false
\* and a second remove(b, k) returns false.
C8_RemoveAll ==
    (op.name = "remove" /\ op.v = NoVersion) =>
        /\ ExistsAnswers(files, op.b, op.k) = {FALSE}
        /\ \A versions \in listVersions(files, op.b, op.k) :
              ~removeAll(files, op.b, op.k, versions, FALSE).any

C8_Witness ==
    /\ op.name = "remove" /\ op.v = NoVersion /\ op.flag /\ op.num >= 3
    /\ DOMAIN files # {}

\* C9: remove(b, k, v) with a non-empty v returns false and changes nothing
\* when v is absent; when v is present it unlinks that version and leaves every
\* other version, key and bucket as it was.
C9_Others(b, k, v) ==
    \A b2 \in Buckets, k2 \in StoredKeys :
        LET before == VersionSet(files, b2, k2) \ (IF b2 = b /\ k2 = k THEN {v} ELSE {})
            after == VersionSet(files', b2, k2)
        IN /\ after = before
           /\ \A v2 \in before : BlobOf(files', b2, k2, v2) = BlobOf(files, b2, k2, v2)

C9_RemoveVersion ==
    [][(op'.name = "remove" /\ op'.v # NoVersion) =>
          /\ op'.flag = (op'.v \in VersionSet(files, op'.b, op'.k))
          /\ C9_Others(op'.b, op'.k, op'.v)]_vars

C9_Witness ==
    /\ op.name = "remove" /\ op.v # NoVersion /\ op.flag
    /\ NoVersion \in VersionSet(files, op.b, op.k)
    /\ \E q \in DOMAIN files : files[q] # <<>>

\* C10: after keys are put into an empty bucket in any order, list of the
\* bucket, as a set, is exactly the set of keys put.
C10_ListIsKeysPut ==
    (pure /\ op.name = "list") =>
        Range(op.names) = {k \in ListKeys : <<op.b, k, NoVersion>> \in hist}

\* the sum of the sizes of the puts hist[from..Len(hist)]
RECURSIVE SizesFrom(_, _)
SizesFrom(h, from) ==
    IF from > Len(h) THEN 0 ELSE dataSize(h[from].data) + SizesFrom(h, from + 1)

\* the keys of the longest suffix of the puts whose sizes sum to at most budget
SuffixKeys(h, budget) ==
    LET fits == {from \in 1..(Len(h) + 1) : SizesFrom(h, from) <= budget}
        first == CHOOSE from \in fits : \A g \in fits : from <= g
    IN {h[j].key : j \in first..Len(h)}

\* the keys for which LRUCache::get returns a non-null pointer
Reachable(c) == {key \in LruKeys : ~cacheGet(c, key).data.null}

\* C19: after puts of distinct keys whose sizes total more than the budget,
\* the keys for which get returns non-null are exactly those of the longest
\* most-recently-used suffix of the puts whose sizes sum to at most the budget.
C19_LruSuffix ==
    (pure /\ SizesFrom(hist, 1) > cache_.maxBytes_) =>
        Reachable(cache_) = SuffixKeys(hist, cache_.maxBytes_)

\* C19, for payloads that are not null pointers: after puts of distinct keys
\* with non-null payloads whose sizes total more than the budget, the keys for
\* which get returns non-null are exactly those of the longest
\* most-recently-used suffix whose sizes sum to at most the budget.
C19_LruSuffixNonNull ==
    (/\ pure
     /\ SizesFrom(hist, 1) > cache_.maxBytes_
     /\ \A j \in DOMAIN hist : ~hist[j].data.null) =>
        Reachable(cache_) = SuffixKeys(hist, cache_.maxBytes_)

C19_Witness ==
    /\ pure /\ Len(hist) = 3
    /\ \A j \in DOMAIN hist : ~hist[j].data.null /\ dataSize(hist[j].data) > 0
    /\ SizesFrom(hist, 1) > cache_.maxBytes_
    /\ Reachable(cache_) = {hist[2].key, hist[3].key}

\* C20: after every LRUCache operation returns, currentBytes() is at most
\* maxBytes(), also after a put of one payload larger than the whole budget.
C20_Budget == cache_.currentBytes_ <= cache_.maxBytes_

C20_Witness ==
    /\ op.name = "cachePut" /\ op.num > cache_.maxBytes_ /\ cache_.maxBytes_ > 0
    /\ cache_.map_ = <<>>

\* the strings of S not less than a and less than b
InRange(S, a, b) == {key \in S : ~StrLess(key, a) /\ StrLess(key, b)}

\* C14: keysWithPrefix(p) returns exactly the indexed keys that have p as a
\* prefix, in ascending order; with the empty prefix it returns every key.
C14_KeysWithPrefix ==
    op.name = "keysWithPrefix" =>
        /\ op.names = Ascending({key \in DOMAIN indexer.hashIndex_ : IsPrefix(op.k, key)})
        /\ (op.k = <<>> => op.names = Ascending(DOMAIN indexer.hashIndex_))

C14_Witness ==
    /\ op.name = "keysWithPrefix"
    /\ op.k = KeyA
    /\ op.names = <<KeyA, KeyAB>>
    /\ KeyB \in DOMAIN indexer.hashIndex_

\* C15: for all bounds a and b, a > b and a = b included, keysInRange(a, b)
\* terminates and returns exactly the indexed keys k with a <= k < b, in
\* ascending order.
C15_KeysInRange ==
    op.name = "keysInRange" =>
        /\ op.ok
        /\ op.names = Ascending(InRange(DOMAIN indexer.hashIndex_, op.k, op.v))

\* the part of C15 the code keeps: bounds with a <= b
KeysInRangeOrdered ==
    (op.name = "keysInRange" /\ ~StrLess(op.v, op.k)) =>
        /\ op.ok
        /\ op.names = Ascending(InRange(DOMAIN indexer.hashIndex_, op.k, op.v))

\* C12: after every FastBlobIndexer operation has finished, by returning or by
\* throwing, hashIndex_ and sortedIndex_ hold the same set of keys, and every
\* pointer of sortedIndex_ designates the hashIndex_ node of its key.
C12_ViewsAgree ==
    /\ DOMAIN indexer.hashIndex_ = DOMAIN indexer.sortedIndex_
    /\ \A key \in DOMAIN indexer.sortedIndex_ : indexer.sortedIndex_[key] = key

\* the part of C12 the code keeps: an operation that returns keeps the views
\* in agreement
ViewsAgreeAfterReturn ==
    [][(C12_ViewsAgree /\ op'.ok) => C12_ViewsAgree']_vars

\* C16: for every index content, once saveToFile, clear and loadFromFile have
\* run in that order, loadFromFile has returned and the index holds the keys,
\* sizes and modification times it held before saveToFile.
C16_SnapshotRoundTrip ==
    \A h \in hist :
        h.stage = "loaded" =>
            /\ op.ok
            /\ indexer.hashIndex_ = h.hashIndex
            /\ DOMAIN indexer.sortedIndex_ = DOMAIN h.hashIndex

\* the part of C16 the code keeps: keys without a tab or a newline
RoundTripOfPlainKeys ==
    \A h \in hist :
        (/\ h.stage = "loaded"
         /\ \A key \in DOMAIN h.hashIndex : StrFind(key, <<Tab>>) = -1 /\ StrFind(key, <<Newline>>) = -1)
        => /\ op.ok
           /\ indexer.hashIndex_ = h.hashIndex
           /\ DOMAIN indexer.sortedIndex_ = DOMAIN h.hashIndex

\* the number of tabs in a line
RECURSIVE CountTabs(_)
CountTabs(line) ==
    IF line = <<>> THEN 0
    ELSE (IF Head(line) = Tab THEN 1 ELSE 0) + CountTabs(Tail(line))

\* a decimal number: one digit or more and nothing else
IsNumber(field) == field # <<>> /\ \A j \in DOMAIN field : IsDigit(field[j])

\* a snapshot line is corrupt when it has fewer than two tabs, or when what
\* stands between the first two tabs, or after the second, is no number
CorruptLine(line) ==
    \/ CountTabs(line) < 2
    \/ LET tab1 == StrFind(line, <<Tab>>)
           rest == SubSeq(line, tab1 + 2, Len(line))
           tab2 == StrFind(rest, <<Tab>>)
       IN \/ ~IsNumber(SubSeq(rest, 1, tab2))
          \/ ~IsNumber(SubSeq(rest, tab2 + 2, Len(rest)))

Corrupt(text) == \E j \in DOMAIN getlines(text) : CorruptLine(getlines(text)[j])

\* C17: loadFromFile returns false when the snapshot file is missing and when
\* it is corrupt (a line without two tabs, or a size or modification time
\* that is no number).
C17_LoadRejects ==
    (/\ op.name = "loadFromFile"
     /\ \/ ~fileExists(files, indexFilePath)
        \/ Corrupt(files[indexFilePath]))
    => (op.ok /\ ~op.flag)

\* the part of C17 the code keeps: a missing file
LoadRejectsMissing ==
    [][(LoadFromFile /\ ~fileExists(files, indexFilePath))
           => (op'.ok /\ ~op'.flag /\ indexer' = indexer)]_vars

\* the prefixes of a key, the empty one and the key itself included
PrefixesOf(key) == {SubSeq(key, 1, n) : n \in 0..Len(key)}

\* the elements of a sequence
Elements(seq) == {seq[j] : j \in DOMAIN seq}

\* C11: once the facade's put(key, data) has returned, getMeta(key) holds the
\* size of data, exists(key) is true, and key is in allKeys() and in
\* keysWithPrefix(p) for every prefix p of key.
C11_FacadePutIndexed ==
    (op.name = "put" /\ op.ok) =>
        /\ indexed(indexer, op.k)
        /\ indexer.hashIndex_[op.k].size = Len(op.data)
        /\ op.k \in Elements(allKeys(indexer))
        /\ \A prefix \in PrefixesOf(op.k) :
               op.k \in Elements(keysWithPrefix(indexer, prefix))

C11_Witness ==
    /\ op.name = "put"
    /\ op.ok
    /\ op.k = KeyAB
    /\ op.data = <<1, 2>>
    /\ indexer.hashIndex_[KeyAB].size = 2
    /\ keysWithPrefix(indexer, KeyA) = <<KeyA, KeyAB>>

\* C13: the facade's remove(key) calls onRemove only when the store's remove
\* returned true: when it returns false the index is left as it was, with its
\* entry of key if it had one; when it returns true the key leaves the index.
C13_RemoveOnlyOnSuccess ==
    [][(op'.name = "remove")
           => IF op'.flag THEN indexer' = onRemove(indexer, op'.k)
                          ELSE indexer' = indexer]_vars

C13_Witness ==
    /\ op.name = "remove"
    /\ ~op.flag
    /\ op.k = KeyA
    /\ indexed(indexer, KeyA)
    /\ ~fileExists(files, pathForKey(bucket_, KeyA, NoVersion))

\* the keys list returns whose sizeOf succeeds
Sizeable(fs, bucket) ==
    {key \in UNION {Elements(keys) : keys \in list(fs, bucket)} :
        \E versions \in listVersions(fs, bucket, key) :
            sizeOfWith(fs, bucket, key, NoVersion, versions).ok}

\* C18: for every worker count, 0 included, once rebuild(bucket) has returned
\* the index holds exactly the keys of list(bucket) whose sizeOf succeeds.
C18_RebuildHoldsListedKeys ==
    op.name = "rebuild" =>
        /\ DOMAIN indexer.hashIndex_ = Sizeable(files, bucket_)
        /\ DOMAIN indexer.sortedIndex_ = Sizeable(files, bucket_)

\* the part of C18 the code keeps: one worker or more
RebuildWithWorkers ==
    (op.name = "rebuild" /\ op.num >= 1) =>
        /\ DOMAIN indexer.hashIndex_ = Sizeable(files, bucket_)
        /\ DOMAIN indexer.sortedIndex_ = Sizeable(files, bucket_)
        /\ \A key \in DOMAIN indexer.hashIndex_ :
               indexer.hashIndex_[key].size
                   = fileSize(files, pathForKey(bucket_, key, NoVersion))

\* C22: with a CachedBlobStorage used by one thread, every payload the cache
\* holds for a key is the bytes the store returns for that key, and every get
\* answers as the store does: the bytes last put, or a failure once the key was
\* removed.
C22_CacheCoherent ==
    /\ \A key \in DOMAIN cache_.map_ :
           /\ ~cache_.map_[key].data.null
           /\ GetAnswers(files, DefaultBucket, key, NoVersion)
                  = {[ok |-> TRUE, bytes |-> cache_.map_[key].data.bytes]}
    /\ op.name = "get" =>
           GetAnswers(files, DefaultBucket, op.k, NoVersion)
               = {[ok |-> op.ok, bytes |-> op.bytes]}

C22_Witness ==
    /\ op.name = "get"
    /\ op.flag
    /\ op.k = KeyA
    /\ op.bytes = <<2, 3>>
    /\ KeyB \in DOMAIN cache_.map_
    /\ cache_.map_[KeyB].data.bytes = <<1>>

\* C21: every step that changes the cache's map, recency list or byte counter
\* is taken by a thread that holds mu_ while no other thread holds it.
C21_MutationsUnderMutex ==
    [][cache_' # cache_ =>
          \E t \in Threads :
              /\ thr'[t] # thr[t]
              /\ (thr[t].pc \in LockedPcs \/ thr'[t].pc \in LockedPcs)
              /\ \A u \in Threads \ {t} : thr[u].pc \notin LockedPcs]_vars

\* the part of C21 the code keeps: get and put of the LRUCache mutate under
\* mu_, and at most one thread holds mu_
LockedCallsExclude ==
    Cardinality({t \in Threads : thr[t].pc \in LockedPcs}) <= 1

\* C23: once put(key, new) has returned, every get(key) called afterwards
\* returns new (no other put or remove running or called since), a get of the
\* key that was running during the put notwithstanding.
C23_GetAfterPut ==
    (/\ op.name = "get"
     /\ op.names # <<>>
     /\ [k |-> op.k, data |-> op.names[1]] \in hist)
    => (op.ok /\ op.bytes = op.names[1])

(* ---------- the static indexer ---------- *)

\* the first record of keys that holds key; 0 when none does
firstRecord(keys, key) ==
    IF \E i \in DOMAIN keys : keys[i] = key
    THEN CHOOSE i \in DOMAIN keys :
             keys[i] = key /\ \A j \in 1..(i - 1) : keys[j] # key
    ELSE 0

\* the line the documented format asks for: what a map of the records holds
RECURSIVE expectedOutput(_, _, _)
expectedOutput(keys, asked, i) ==
    IF i > Len(asked) THEN <<>>
    ELSE LET r == firstRecord(keys, asked[i])
         IN (IF r = 0 THEN NOTFOUND
             ELSE to_string(RecordSizes[r]) \o <<32>> \o to_string(RecordOffsets[r])
                      \o <<Newline>>)
            \o expectedOutput(keys, asked, i + 1)

\* no byte of the key is a control character, a blank or above 127
Printable(key) == \A i \in DOMAIN key : key[i] > 32 /\ key[i] < 128

\* C24: when the run has ended, the output holds, for each query in order, the
\* (size, offset) of the record ingested under the query's key, and NOTFOUND
\* when no record was ingested under it.
C24_LookupAgrees ==
    main.pc = "done" =>
        out.written = expectedOutput(program.keys, program.asked, 1)

\* The same, for the inputs whose keys and queries hold printable ASCII only.
LookupAgreesOnPrintable ==
    (/\ main.pc = "done"
     /\ \A i \in DOMAIN program.keys : Printable(program.keys[i])
     /\ \A i \in DOMAIN program.asked : Printable(program.asked[i]))
    => out.written = expectedOutput(program.keys, program.asked, 1)

TableBuilt == main.pc \in {"queries", "answer", "done"}

\* the bytes of the key of blobs[i]
keyOf(i) == bytesAt(input, arena, blobs[i].key, blobs[i].keyLen)

\* the first of the blobs that holds the key of blobs[i]
earliest(i) ==
    CHOOSE j \in 1..i : keyOf(j) = keyOf(i) /\ \A k \in 1..(j - 1) : keyOf(k) # keyOf(i)

\* C26: once the table is built, the lookup of the key of any inserted blob
\* returns the entry of the earliest blob inserted under that key: its key
\* pointer, its size and its offset; the entry of a later duplicate is not
\* returned.
C26_EarliestWins ==
    TableBuilt =>
        \A i \in DOMAIN blobs :
            LET e == find(input, arena, hm, keyOf(i), blobs[i].keyLen, fnv1a(keyOf(i)))
                j == earliest(i)
            IN /\ e.key = blobs[j].key
               /\ e.size = blobs[j].size
               /\ e.offset = blobs[j].offset

C26_Witness ==
    /\ main.pc = "done"
    /\ program.keys = <<KeyA, KeyI, KeyA>>
    /\ program.asked = <<KeyA>>
    /\ blobs[1].size # blobs[3].size
    /\ out.written = <<49, 48, 32, 49, 48, 48, 10>>

occupied(table) ==
    Cardinality({i \in DOMAIN table.entries_ : table.entries_[i].key # NullPtr})

RECURSIVE IsPowerOfTwo(_)
IsPowerOfTwo(c) == c = 1 \/ (c > 1 /\ c % 2 = 0 /\ IsPowerOfTwo(c \div 2))

\* every slot is empty or holds one of the blobs, whole
SlotsOccupiedOrEmpty ==
    \A s \in DOMAIN hm.entries_ :
        \/ hm.entries_[s].key = NullPtr
        \/ \E i \in DOMAIN blobs :
               hm.entries_[s] = [key |-> blobs[i].key, keyLen |-> blobs[i].keyLen,
                                 hash32 |-> fnv1a(keyOf(i)),
                                 size |-> blobs[i].size, offset |-> blobs[i].offset]

\* C27 as the specification words it: for N >= 1, once the N entries are
\* inserted, the occupied slots are fewer than half of the capacity, which is
\* the power of two the constructor computes; every slot is occupied or empty.
C27_LoadBelowHalf ==
    (TableBuilt /\ main.n >= 1) =>
        /\ occupied(hm) = main.n
        /\ 2 * occupied(hm) < hm.capacity_
        /\ IsPowerOfTwo(hm.capacity_)
        /\ hm.capacity_ = FastHashMap(main.n).capacity_
        /\ SlotsOccupiedOrEmpty

\* C27, amended: for N >= 1, once the N entries are inserted, the occupied
\* slots are at most half of the capacity (exactly half when 2N is a power of
\* two), the capacity is the least power of two that is at least 2N, and
\* every slot is occupied or empty.
C27_LoadAtMostHalf ==
    (TableBuilt /\ main.n >= 1) =>
        /\ occupied(hm) = main.n
        /\ 2 * occupied(hm) <= hm.capacity_
        /\ IsPowerOfTwo(hm.capacity_)
        /\ hm.capacity_ >= 2 * main.n
        /\ hm.capacity_ < 4 * main.n
        /\ SlotsOccupiedOrEmpty

C27_Witness ==
    /\ TableBuilt
    /\ main.n = 2
    /\ occupied(hm) = 2
    /\ hm.capacity_ = 4
    /\ blobs[1].keyLen = blobs[2].keyLen
    /\ keyOf(1) # keyOf(2)
    /\ masked(fnv1a(keyOf(1)), hm.mask_) = masked(fnv1a(keyOf(2)), hm.mask_)

(* ---------- the key copy ---------- *)

\* C28: when an alloc of the key copy has returned null, the run fails before
\* the table is filled: no key passed to insert is a null pointer, and the run
\* never reaches the queries with a key that was not copied.
C28_ExhaustionFailsRun ==
    main.pc \in {"queries", "killed"} =>
        \A i \in DOMAIN blobs : blobs[i].key # NullPtr

\* alloc returns null for the allocations that end beyond the capacity, and
\* for no other
AllocNullWhenExhausted ==
    \A i \in DOMAIN blobs :
        blobs[i].by # <<>> =>
            \/ blobs[i].key = NullPtr /\ arena.offset_ > arena.capacity_
            \/ /\ blobs[i].key.base = "arena"
               /\ blobs[i].key.off + blobs[i].keyLen + 1 <= arena.capacity_

\* the entries, counted from 1, of the chunks worker t claimed
claimedBy(t) ==
    UNION {(workers[t].claimed[k] + 1)..Min(workers[t].claimed[k] + chunkSize, main.n) :
              k \in DOMAIN workers[t].claimed}

claimants(i) == {t \in DOMAIN workers : i \in claimedBy(t)}

\* each entry is written by workers that claimed it, and once at most
WritesWithinClaims ==
    \A i \in DOMAIN blobs :
        /\ Len(blobs[i].by) <= 1
        /\ \A k \in DOMAIN blobs[i].by : i \in claimedBy(blobs[i].by[k])

\* the byte range of the copy of the key of entry i
copyOf(i) == blobs[i].key.off..(blobs[i].key.off + blobs[i].keyLen)

\* the allocations that succeeded lie inside the arena, apart from one another
AllocationsDisjoint ==
    \A i \in DOMAIN blobs :
        blobs[i].key.base = "arena" =>
            /\ blobs[i].key.off + blobs[i].keyLen + 1 <= arena.capacity_
            /\ \A j \in DOMAIN blobs \ {i} :
                   blobs[j].key.base = "arena" => copyOf(i) \cap copyOf(j) = {}

queriesClaimedBy(t) ==
    UNION {(workers[t].claimed[k] + 1)..Min(workers[t].claimed[k] + queryChunk, main.q) :
              k \in DOMAIN workers[t].claimed}

queryClaimants(i) == {t \in DOMAIN workers : i \in queriesClaimedBy(t)}

\* what the table answers to query i, as a line of output
RECURSIVE answersFrom(_)
answersFrom(i) ==
    IF i > Len(queries) THEN <<>>
    ELSE answerLine(find(input, arena, hm,
                         bytesAt(input, arena, queries[i].key, queries[i].keyLen),
                         queries[i].keyLen, queries[i].hash))
         \o answersFrom(i + 1)

\* C25: for every worker count derived from hardware_concurrency(), 0
\* included: no query position is claimed by two workers; when the output is
\* written every position 0..Q-1 was claimed by exactly one worker, which
\* stored its result there; and line i of the output is the table's answer to
\* query i.
C25_ParallelQueries ==
    /\ \A i \in DOMAIN results : Cardinality(queryClaimants(i)) <= 1
    /\ main.pc = "done" =>
           /\ \A i \in DOMAIN results :
                  /\ Cardinality(queryClaimants(i)) = 1
                  /\ \E t \in queryClaimants(i) : results[i].by = <<t>>
           /\ out.written = answersFrom(1)

\* The same, for the runs that start at least one worker.
ParallelQueriesOfStarted ==
    DOMAIN workers # {} => C25_ParallelQueries

(* ---------- the asynchronous writer ---------- *)

\* C30: at every moment the bytes that reached the descriptor are the first
\* bytes passed to write, in the order they were passed; once the writer is
\* closed they are all of them.
C30_SubmissionOrder ==
    /\ IsPrefix(out.fd, out.passed)
    /\ out.pc = "closed" => out.fd = out.passed

\* The same, for the runs in which the writer never goes on while a request is
\* still held by the ring, and for the fallback.
OrderWhenRingKeepsUp ==
    ~ring.lagged => C30_SubmissionOrder

\* flush() and drain() of ~IOUringWriter have returned ("crashed" is the
\* fallback destructor's read of the unset buffers_, which follows them)
Drained == out.pc \in {"closed", "crashed"}

\* what shutdown leaves: as many bytes went to the ring (and from it to the
\* descriptor) as were passed to write, and no request is pending
ShutdownComplete ==
    Drained => /\ Len(out.fd) = Len(out.passed)
               /\ out.pending_ = 0
               /\ ring.inflight = {}
               /\ ring.cq = 0

\* requests submitted and not yet reaped by the writer, and those the ring holds
InFlightBounded ==
    /\ out.pending_ <= QUEUE_DEPTH - 1
    /\ Cardinality(ring.inflight) <= out.pending_
    /\ out.pending_ = Cardinality(ring.inflight) + ring.cq

\* C31: on shutdown the writer eventually finishes, with every byte passed to
\* write submitted and no request pending; at no moment are more than
\* QUEUE_DEPTH - 1 requests in flight; the drain loop terminates.
C31_ShutdownDrains ==
    /\ [](InFlightBounded /\ ShutdownComplete)
    /\ <>Drained
    /\ (out.pc = "draining") ~> (out.pc = "closed")

\* a writer over the ring is closed after it had to wait for a completion
\* before submitting, with bytes in both buffers' requests
C31_Witness ==
    /\ out.pc = "closed"
    /\ ~out.fallback_
    /\ ring.submitted > QUEUE_DEPTH
    /\ Len(out.passed) >= 2 * CAPACITY

\* the requests given to the ring and not yet completed that reference
\* buffer b of the writer
referencing(b) == {r \in ring.inflight : r.buf = b}

\* C37: no step of the producer changes a buffer (its size by reset, its bytes
\* by a copy) while a request that references the buffer is submitted and not
\* yet completed.
C37_NoReuseInFlight ==
    [][\A b \in 1..2 :
          out'.buffers_[b] # out.buffers_[b] => referencing(b) = {}]_vars

(* ---------- batch operations ---------- *)

\* a put of this key throws: its path names a directory
PutThrows(fs, key) == IsDirPath(fs, pathForKey(DefaultBucket, key, NoVersion))

\* the positions of a batch whose key is k and whose put does not throw
StoredAt(items, fs, k) ==
    {i \in DOMAIN items : items[i].key = k /\ ~PutThrows(fs, k)}

Last(S) == CHOOSE i \in S : \A j \in S : j <= i

\* batchPut: one result per item, in order, true exactly for the puts that do
\* not throw; the files are those the successful items alone leave, each key
\* holding the bytes of its last successful item
BatchPutPerItem ==
    op.name = "batchPut" =>
        /\ Len(op.results) = Len(op.items)
        /\ \A i \in DOMAIN op.items :
              /\ op.results[i].key = op.items[i].key
              /\ op.results[i].success = ~PutThrows(op.before, op.items[i].key)
        /\ LET kept == SelectSeq(op.items, LAMBDA it : ~PutThrows(op.before, it.key))
               alone == batchPut(op.before, kept, pid)
           IN /\ alone.fs = files
              /\ alone.results = SelectSeq(op.results, LAMBDA r : r.success)
        /\ \A k \in BatchKeys :
              LET path == pathForKey(DefaultBucket, k, NoVersion)
                  at == StoredAt(op.items, op.before, k)
              IN IF at # {}
                 THEN fileExists(files, path) /\ files[path] = op.items[Last(at)].data
                 ELSE fileExists(files, path) = fileExists(op.before, path)
                      /\ (fileExists(files, path) => files[path] = op.before[path])

\* batchGet: one pair per key, in order, with the stored bytes, or no bytes
\* for a key that is not stored; the files are left as they were
BatchGetPerItem ==
    op.name = "batchGet" =>
        /\ Len(op.results) = Len(op.items)
        /\ files = op.before
        /\ \A i \in DOMAIN op.items :
              LET path == pathForKey(DefaultBucket, op.items[i], NoVersion)
              IN /\ op.results[i].key = op.items[i]
                 /\ op.results[i].bytes =
                        IF fileExists(files, path) THEN files[path] ELSE <<>>

C33_VersionedRoundTrip ==
    (op.name = "put" /\ op.ok /\ op.v # NoVersion) =>
        /\ op.v \in VersionSet(files, op.b, op.k)
        /\ GetAnswers(files, op.b, op.k, op.v) = {[ok |-> TRUE, bytes |-> op.data]}

\* C33 (amended): once put(b, k, bytes, v) with a non-empty version id has
\* returned, and v is among the three greatest version ids of the key with v
\* counted in, v is among listVersions(b, k) and get(b, k, v) returns exactly
\* bytes.
C33_RoundTripOfKeptVersion ==
    (op.name = "put" /\ op.ok /\ op.v # NoVersion
        /\ op.v \in Greatest(VersionSet(files, op.b, op.k) \cup {op.v}, KeepVersions)) =>
        /\ op.v \in VersionSet(files, op.b, op.k)
        /\ GetAnswers(files, op.b, op.k, op.v) = {[ok |-> TRUE, bytes |-> op.data]}

\* a versioned put has returned after its retention loop found four versions
\* and removed another one than its own
C33_Witness ==
    /\ op.name = "put" /\ op.ok /\ op.v # NoVersion
    /\ op.num > KeepVersions
    /\ op.v \in VersionSet(files, op.b, op.k)
    /\ op.data = <<1, 2>>

(* ---------- list and exists ---------- *)

\* C34: list(b) holds each key once, and a key is in list(b) exactly when
\* exists(b, k) is true, for keys stored unversioned, under version ids only,
\* or with two consecutive underscores in their bytes.
C34_ListMatchesExists ==
    op.name = "list" =>
        /\ \A i, j \in DOMAIN op.names : i # j => op.names[i] # op.names[j]
        /\ \A k \in StoredKeys \cup Range(op.names) :
              k \in Range(op.names) <=> ExistsAnswers(files, op.b, k) = {TRUE}

\* The same for the keys without "__" in their bytes that are stored
\* unversioned.
ListMatchesExistsOfPlainKeys ==
    op.name = "list" =>
        /\ \A i, j \in DOMAIN op.names : i # j => op.names[i] # op.names[j]
        /\ \A k \in Range(op.names) : ExistsAnswers(files, op.b, k) = {TRUE}
        /\ \A k \in StoredKeys :
              (StrFind(k, <<95, 95>>) = -1
                  /\ fileExists(files, pathForKey(op.b, k, NoVersion)))
              => k \in Range(op.names)

(* ---------- the recency list of the LRU cache ---------- *)

\* a put that may follow
LaterPuts == [key : LruKeys, data : LruPayloads]

\* the keys cached in c
Cached(c) == DOMAIN c.map_

\* once key is gone from c, so is every key of `others`
EvictedLast(c, key, others) ==
    key \notin Cached(c) => others \cap Cached(c) = {}

\* C35: after LRUCache::get found a key, that key is the most recently used:
\* whatever one or two puts follow, it is not evicted while another entry that
\* was cached at the time of the get, and was not put again, is still cached.
C35_GetMakesMostRecent ==
    (op.name = "cacheGet" /\ op.flag) =>
        \A p1, p2 \in LaterPuts :
            LET c1 == cachePut(cache_, p1.key, p1.data)
                c2 == cachePut(c1, p2.key, p2.data)
            IN /\ EvictedLast(c1, op.k, Cached(cache_) \ {op.k, p1.key})
               /\ EvictedLast(c2, op.k, Cached(cache_) \ {op.k, p1.key, p2.key})

\* a get found the key that was the least recently used of three, and a put
\* can follow that evicts the two others and keeps it
C35_Witness ==
    /\ op.name = "cacheGet" /\ op.flag
    /\ Cardinality(Cached(cache_)) = 3
    /\ cache_.currentBytes_ = cache_.maxBytes_
    /\ \E p \in LaterPuts :
          /\ p.key = op.k
          /\ Cached(cachePut(cache_, p.key, p.data)) = {op.k}
    /\ \E p \in LaterPuts :
          LET c1 == cachePut(cache_, p.key, p.data)
          IN op.k \in Cached(c1) /\ Cardinality(Cached(c1)) < 3 /\ p.key # op.k

RECURSIVE SumOfSizes(_, _)
SumOfSizes(map, keys) ==
    IF keys = {} THEN 0
    ELSE LET key == CHOOSE q \in keys : TRUE
         IN dataSize(map[key].data) + SumOfSizes(map, keys \ {key})

\* C36: after every LRUCache operation, run one at a time, the recency list
\* holds each cached key exactly once, its keys are the keys of the map, each
\* map entry's iterator designates the list node of its own key, and
\* currentBytes is the sum of the sizes of the cached payloads.
C36_ListMatchesMap ==
    /\ \A i, j \in DOMAIN cache_.order_ :
          i # j => /\ cache_.order_[i].key # cache_.order_[j].key
                   /\ cache_.order_[i].id # cache_.order_[j].id
    /\ {cache_.order_[j].key : j \in DOMAIN cache_.order_} = DOMAIN cache_.map_
    /\ \A key \in DOMAIN cache_.map_ :
          \E j \in DOMAIN cache_.order_ :
              /\ cache_.order_[j].id = cache_.map_[key].it
              /\ cache_.order_[j].key = key
    /\ cache_.currentBytes_ = SumOfSizes(cache_.map_, DOMAIN cache_.map_)

\* an invalidate has left two keys cached whose payloads, one of size 1,
\* fill a budget of 3, the more recent one in the list node made later
C36_Witness ==
    /\ Len(cache_.order_) = 2
    /\ cache_.currentBytes_ = 3
    /\ op.name = "invalidate"
    /\ \E key \in DOMAIN cache_.map_ : dataSize(cache_.map_[key].data) = 1
    /\ cache_.order_[1].id > cache_.order_[2].id

(* ---------- the static indexer variants ---------- *)

\* both programs have run to their end on the input
BothRan == main.pc = "done" /\ results # <<>>

\* C38: on the same input the baseline (std::unordered_map) and the
\* open-addressing variant write the same output, inputs with a key ingested
\* more than once included.
C38_VariantsAgree ==
    BothRan => /\ ~results[1].hung
               /\ out.written = results[1].written

\* The same, for the inputs whose records have pairwise different keys of
\* printable ASCII.
VariantsAgreeOnDistinctKeys ==
    (/\ BothRan
     /\ \A i, j \in DOMAIN program.keys : i # j => program.keys[i] # program.keys[j]
     /\ \A i \in DOMAIN program.keys : Printable(program.keys[i])
     /\ \A i \in DOMAIN program.asked : Printable(program.asked[i]))
    => /\ ~results[1].hung
       /\ out.written = results[1].written

(* ---------- instances for different buckets on one root ---------- *)

\* the keys stored in a bucket
StoredIn(fs, bucket) ==
    {key \in InstanceKeys : fileExists(fs, pathForKey(bucket, key, NoVersion))}

\* C39: after init() of the instance for a bucket has returned, its index
\* holds only keys stored in that bucket, also when the instance for the
\* other bucket has saved its index before.
C39_IndexOfOwnBucket ==
    (op.name = "instanceInit" /\ op.ok) =>
        /\ DOMAIN indexer[op.b].hashIndex_ \subseteq StoredIn(files, op.b)
        /\ DOMAIN indexer[op.b].sortedIndex_ \subseteq StoredIn(files, op.b)

\* For an init that found no snapshot file and rebuilt the index from its
\* bucket, the index holds exactly the keys stored in the bucket.
IndexOfOwnBucketWhenRebuilt ==
    (op.name = "instanceInit" /\ op.ok /\ ~op.flag) =>
        /\ DOMAIN indexer[op.b].hashIndex_ = StoredIn(files, op.b)
        /\ DOMAIN indexer[op.b].sortedIndex_ = StoredIn(files, op.b)

\* C40: in a table made for N entries that has taken at most N insertions,
\* every insertion and every lookup ends, at a matching entry or at an empty
\* slot, after examining at most capacity_ slots.
C40_ProbeTerminates ==
    /\ ~main.spins
    /\ main.steps <= hm.capacity_
    /\ \E i \in DOMAIN hm.entries_ : hm.entries_[i].key = NullPtr

\* a table made for MaxTable entries holds that many under colliding keys, and
\* the lookup of an absent colliding key walked past all of them to an empty slot
C40_Witness ==
    /\ main.call = "find"
    /\ main.n = MaxTable
    /\ idx = main.n
    /\ ~main.found
    /\ main.steps = main.n + 1

====
